---- MODULE Spec2Model ----
(***************************************************************************)
(* A model of the immigration-strategy core of the repository:             *)
(*   GraphBuilder          immigration_strategy/graph_builder.py           *)
(*   SimilaritySearch      immigration_strategy/similarity_search.py       *)
(*   RecommendationEngine  immigration_strategy/strategy_engine.py         *)
(*   PatternAnalyzer       immigration_strategy/pattern_analyzer.py        *)
(* and of the two web backends:                                            *)
(*   upload flow           immigration-bot/main.py, state.py               *)
(*   conversation history  pumpkin-chat/app.py                             *)
(*                                                                         *)
(* Floating-point numbers are modelled by exact rationals <<n, d>>, d > 0, *)
(* kept in lowest terms.  An embedding is a vector of integers over one    *)
(* common positive denominator, [num |-> <<..>>, den |-> d].  Embeddings   *)
(* are drawn from vectors whose Euclidean norm is an integer, so that      *)
(* normalisation and cosine similarity are exact.                          *)
(***************************************************************************)
EXTENDS Integers, Sequences, FiniteSets, TLC

VARIABLES
    mongo,      \* the documents the MongoDB query returns (a sequence)
    threshold,  \* the similarity_threshold argument of build_graph
    builder,    \* GraphBuilder: [G, cases, embeddings]
    gpc,        \* position of the GraphBuilder driver
    searcher,   \* SimilaritySearch: None or [cases, embeddings]
    user_profile, \* the profile of a find_similar_cases call
    top_k,      \* its top_k
    sortTies,   \* how this build's np.argsort orders equal keys
    results,    \* what the call returned
    spc,        \* position of the SimilaritySearch driver
    analyzer,   \* RecommendationEngine.analyzer: None or [cases, G]
    visualizer, \* RecommendationEngine.visualizer: None or [G, cases]
    loaded,     \* RecommendationEngine._loaded
    cacheFile,  \* the snapshot file: None (absent or unreadable) or its dict
    lpc,        \* position of the load call in progress
    lframe,     \* its arguments and locals
    qpc,        \* position of the query call in progress
    qframe,     \* its arguments and locals
    origin,     \* history: the load that created each object of the engine
    pre,        \* history: the engine as it was when the load call began
    everLoaded, \* history: some load has completed successfully
    loadNo,     \* history: the number of load calls so far
    analysis,   \* what the PatternAnalyzer and the recommendation builder gave
    apc,        \* position of the PatternAnalyzer driver
    sessions,   \* immigration-bot state.py: the dict session_id -> Session
    upload,     \* history: the last request of the immigration-bot and its reply
    conversations \* pumpkin-chat app.py: the dict session_id -> history

gvars == <<mongo, threshold, builder, gpc>>
svars == <<searcher, user_profile, top_k, sortTies, results, spc>>
evars == <<analyzer, visualizer, loaded, cacheFile, lpc, lframe, qpc, qframe,
           origin, pre, everLoaded, loadNo>>
avars == <<analysis, apc>>
wvars == <<sessions, upload, conversations>>
vars == <<gvars, svars, evars, avars, wvars>>

(***************************************************************************)
(* Bounds of the model.                                                    *)
(***************************************************************************)
MaxCases == 3
MaxLoads == 2
MaxCorpus == 11
MaxSimilar == 4
MaxSample == 21

(***************************************************************************)
(* Integer and rational helpers.                                           *)
(***************************************************************************)
\* An optional reference is a set: None is the empty set, a reference to v is {v}.
None == {}
Some(v) == {v}
Val(o) == CHOOSE v \in o : TRUE

Abs(x) == IF x < 0 THEN -x ELSE x

RECURSIVE Gcd(_, _)
Gcd(a, b) == IF b = 0 THEN Abs(a) ELSE Gcd(b, a % b)

Rat(n, d) ==
    LET g == Gcd(Abs(n), Abs(d))
        s == IF d < 0 THEN -1 ELSE 1
    IN  IF n = 0 THEN <<0, 1>> ELSE <<(s * n) \div g, (s * d) \div g>>

RZero == <<0, 1>>
ROne == <<1, 1>>
RAdd(a, b) == Rat(a[1] * b[2] + b[1] * a[2], a[2] * b[2])
RSub(a, b) == Rat(a[1] * b[2] - b[1] * a[2], a[2] * b[2])
RMul(a, b) == Rat(a[1] * b[1], a[2] * b[2])
RDiv(a, b) == Rat(a[1] * b[2], a[2] * b[1])
RLt(a, b) == a[1] * b[2] < b[1] * a[2]
RLe(a, b) == a[1] * b[2] <= b[1] * a[2]

RECURSIVE RSum(_)
RSum(s) == IF s = <<>> THEN RZero ELSE RAdd(Head(s), RSum(Tail(s)))

IsSquare(n) == \E r \in 0..n : r * r = n
ISqrt(n) == CHOOSE r \in 0..n : r * r = n

Range(s) == {s[i] : i \in DOMAIN s}

\* The function f on 1..n as a sequence whose elements are evaluated once.
List(f) == <<>> \o f

\* The element of a one-element set.  {F(x) : x \in {e}} evaluates e before F
\* is applied, which keeps the evaluation of a long chain of updates shallow.
Only(S) == CHOOSE x \in S : TRUE

\* dict.get(key, default)
Get(d, k, default) == IF k \in DOMAIN d THEN d[k] ELSE default

\* Python truthiness: the empty string and the empty list are false.
Truthy(s) == s # ""
TruthyList(l) == l # <<>>

(***************************************************************************)
(* Vectors.                                                                *)
(***************************************************************************)
Dot(a, b) == RSum([i \in DOMAIN a |-> <<a[i] * b[i], 1>>])[1]
NormSq(a) == Dot(a, a)

RECURSIVE GcdSeq(_)
GcdSeq(s) == IF s = <<>> THEN 0 ELSE Gcd(Head(s), GcdSeq(Tail(s)))

\* The vector num/den in canonical form.
Vec(num, den) ==
    LET g == Gcd(GcdSeq(num), den)
    IN  IF g = 0 THEN [num |-> num, den |-> 1]
        ELSE [num |-> List([i \in DOMAIN num |-> num[i] \div g]),
              den |-> den \div g]

\* graph_builder.py 50-53: raw_emb / norms, with norms[norms == 0] = 1.0
NormaliseEmbedding(raw) ==
    LET n == ISqrt(NormSq(raw))
    IN  Vec(raw, IF n = 0 THEN 1 ELSE n)

\* sklearn.metrics.pairwise.cosine_similarity of two rows: both rows are
\* normalised (a zero row stays zero) and the dot product is taken.
CosineSimilarity(a, b) ==
    LET na == ISqrt(NormSq(a.num))
        nb == ISqrt(NormSq(b.num))
    IN  IF na = 0 \/ nb = 0 THEN RZero
        ELSE Rat(Dot(a.num, b.num), na * nb)

(***************************************************************************)
(* The corpus in the store.  A document is a record that may lack keys.    *)
(***************************************************************************)
DocA == [_id |-> "ida", embedding |-> <<3, 4>>, case_number |-> "A-1",
         outcome |-> "SUSTAINED", job_title |-> "Data Engineer",
         company_type |-> "consulting", wage_level |-> "Level II",
         rfe_issues |-> <<"wage_level">>,
         arguments_made |-> <<"expert_letter">>]
DocB == [_id |-> "idb", embedding |-> <<-3, 4>>,
         outcome |-> "DISMISSED", job_title |-> "Software Engineer",
         company_type |-> "staffing"]
DocC == [_id |-> "idc", embedding |-> <<6, 8>>, case_number |-> "C-3",
         outcome |-> "SUSTAINED", job_title |-> "data engineer",
         company_type |-> "Consulting", wage_level |-> "level iv ",
         rfe_issues |-> <<"wage_level", "specialty_occupation">>,
         arguments_made |-> <<"expert_letter", "prior_approvals">>]
DocD == [_id |-> "idd", embedding |-> <<4, 3>>, case_number |-> "A-1",
         outcome |-> "DISMISSED", job_title |-> "",
         company_type |-> "", wage_level |-> "n/a",
         rfe_issues |-> <<"specialty_occupation">>,
         arguments_made |-> <<"prior_approvals">>]
DocN == [_id |-> "idn", embedding |-> <<-3, -4>>, case_number |-> "1",
         outcome |-> "REMANDED", wage_level |-> "Level I",
         arguments_made |-> <<>>]
DocZ == [_id |-> "idz", embedding |-> <<0, 0>>, case_number |-> "",
         outcome |-> "", job_title |-> "Data Engineer",
         company_type |-> "consulting", wage_level |-> "Level II",
         rfe_issues |-> <<"wage_level">>,
         arguments_made |-> <<"expert_letter">>]

DocPool == {DocA, DocB, DocC, DocD, DocN, DocZ}

RECURSIVE SeqsUpTo(_, _)
SeqsUpTo(S, n) ==
    IF n = 0 THEN {<<>>}
    ELSE LET shorter == SeqsUpTo(S, n - 1)
         IN  shorter \cup {Append(s, x) : s \in {t \in shorter : Len(t) = n - 1}, x \in S}

Collections == SeqsUpTo(DocPool, MaxCases)

\* similarity_threshold values (build_graph's default 0.92, the engine's 0.75)
Thresholds == {<<75, 100>>, <<92, 100>>, <<24, 25>>, <<99, 100>>, <<1, 1>>,
               <<0, 1>>, <<-1, 1>>}

(***************************************************************************)
(* GraphBuilder                                                            *)
(***************************************************************************)
EmptyGraph == [nodes |-> <<>>, edges |-> <<>>]

\* GraphBuilder.__init__
NewBuilder == [G |-> EmptyGraph, cases |-> <<>>, embeddings |-> None]

\* graph_builder.py 50-53
LoadEmbeddings(raw_cases) ==
    List([i \in DOMAIN raw_cases |-> NormaliseEmbedding(raw_cases[i].embedding)])

\* graph_builder.py 58-75: one entry of self.cases (index is 0-based).  A list
\* field that is missing or None in the document becomes [] ("or []"): both
\* are a missing key here.
CaseRecord(i, c) ==
    [index |-> i,
     mongo_id |-> c._id,
     case_number |-> Get(c, "case_number", ""),
     outcome |-> Get(c, "outcome", "UNKNOWN"),
     job_title |-> Get(c, "job_title", ""),
     company_type |-> Get(c, "company_type", "unknown"),
     wage_level |-> Get(c, "wage_level", ""),
     rfe_issues |-> Get(c, "rfe_issues", <<>>),
     arguments_made |-> Get(c, "arguments_made", <<>>)]

\* graph_builder.py 56-75
LoadCases(raw_cases) ==
    List([i \in DOMAIN raw_cases |-> CaseRecord(i - 1, raw_cases[i])])

\* networkx DiGraph.add_node(n, **attrs): attributes are updated
AddNode(G, n, attrs) ==
    [G EXCEPT !.nodes = (n :> (attrs @@ Get(G.nodes, n, <<>>))) @@ G.nodes]

\* networkx DiGraph.add_edge(u, v, **attrs): missing end points are added,
\* an existing edge has its attributes updated
AddEdge(G, u, v, attrs) ==
    LET withU == IF u \in DOMAIN G.nodes THEN G ELSE AddNode(G, u, <<>>)
        withV == IF v \in DOMAIN withU.nodes THEN withU ELSE AddNode(withU, v, <<>>)
    IN  [withV EXCEPT !.edges =
            (<<u, v>> :> (attrs @@ Get(withV.edges, <<u, v>>, <<>>))) @@ withV.edges]

CaseId(idx) == "case_" \o ToString(idx)

\* graph_builder.py 106-108, 113-115, ...: "if id not in G: add_node; add_edge"
LinkValue(G, case_id, nid, node_type, value, edge_type) ==
    LET g1 == IF nid \in DOMAIN G.nodes THEN G
              ELSE AddNode(G, nid, [node_type |-> node_type, value |-> value])
    IN  AddEdge(g1, case_id, nid, [edge_type |-> edge_type])

RECURSIVE LinkValues(_, _, _, _, _, _)
LinkValues(G, case_id, prefix, node_type, values, edge_type) ==
    IF values = <<>> THEN G
    ELSE Only({LinkValues(g1, case_id, prefix, node_type, Tail(values), edge_type) :
                 g1 \in {LinkValue(G, case_id, prefix \o Head(values), node_type,
                                   Head(values), edge_type)}})

\* graph_builder.py 93-138: the body of the loop over self.cases
AddCaseToGraph(G, case) ==
    LET case_id == CaseId(case.index)
        g0 == AddNode(G, case_id,
                [node_type |-> "Case",
                 case_number |-> case.case_number,
                 outcome |-> case.outcome,
                 job_title |-> case.job_title,
                 company_type |-> case.company_type,
                 wage_level |-> case.wage_level,
                 rfe_issues |-> case.rfe_issues,
                 arguments_made |-> case.arguments_made])
        g1 == IF Truthy(case.outcome)
              THEN LinkValue(g0, case_id, "outcome_" \o case.outcome, "Outcome",
                             case.outcome, "RESULTED_IN")
              ELSE g0
        g2 == LinkValues(g1, case_id, "arg_", "Argument", case.arguments_made,
                         "USED_ARGUMENT")
        g3 == IF Truthy(case.company_type)
              THEN LinkValue(g2, case_id, "comptype_" \o case.company_type,
                             "Company_Type", case.company_type, "FILED_BY")
              ELSE g2
        g4 == IF Truthy(case.job_title)
              THEN LinkValue(g3, case_id, "role_" \o case.job_title, "Job_Title",
                             case.job_title, "FOR_ROLE")
              ELSE g3
    IN  LinkValues(g4, case_id, "rfe_", "RFE_Issue", case.rfe_issues,
                   "RECEIVED_RFE")

RECURSIVE AddCasesToGraph(_, _)
AddCasesToGraph(G, cases) ==
    IF cases = <<>> THEN G
    ELSE Only({AddCasesToGraph(g1, Tail(cases)) :
                 g1 \in {AddCaseToGraph(G, Head(cases))}})

\* A variant that also links a pair whose similarity equals the threshold.
ExceedsThreshold_OrEqual(sim, similarity_threshold) ==
    RLe(similarity_threshold, sim)

\* graph_builder.py 148: the test that decides a SIMILAR_TO pair
ExceedsThreshold(sim, similarity_threshold) == RLt(similarity_threshold, sim)

\* A variant that adds the edge in one direction only.
AddSimilarPair_OneWay(G, i, j, sim) ==
    AddEdge(G, CaseId(i), CaseId(j), [edge_type |-> "SIMILAR_TO", weight |-> sim])

\* graph_builder.py 149-156: the two add_edge calls of one pair
AddSimilarPair(G, i, j, sim) ==
    AddEdge(AddEdge(G, CaseId(i), CaseId(j),
                    [edge_type |-> "SIMILAR_TO", weight |-> sim]),
            CaseId(j), CaseId(i),
            [edge_type |-> "SIMILAR_TO", weight |-> sim])

\* graph_builder.py 145-157: the loops over i and j > i (0-based), row-major
RECURSIVE AddSimilarEdges(_, _, _, _, _, _)
AddSimilarEdges(G, embeddings, n, i, j, similarity_threshold) ==
    IF i >= n THEN G
    ELSE IF j >= n
         THEN AddSimilarEdges(G, embeddings, n, i + 1, i + 2, similarity_threshold)
         ELSE LET sim == CosineSimilarity(embeddings[i + 1], embeddings[j + 1])
              IN  Only({AddSimilarEdges(g1, embeddings, n, i, j + 1,
                                        similarity_threshold) :
                          g1 \in {IF ExceedsThreshold(sim, similarity_threshold)
                                   THEN AddSimilarPair(G, i, j, sim)
                                   ELSE G}})

\* GraphBuilder.build_graph
build_graph(cases, embeddings, similarity_threshold) ==
    Only({IF embeddings # None /\ Len(Val(embeddings)) > 1
          THEN AddSimilarEdges(G, Val(embeddings), Len(cases), 0, 1,
                               similarity_threshold)
          ELSE G :
          G \in {AddCasesToGraph(EmptyGraph, cases)}})

(***************************************************************************)
(* SpecGraph: GraphBuilder.load_from_mongodb followed by build_graph, for  *)
(* every collection and threshold of the bounded sets.                     *)
(***************************************************************************)
\* The variables of the two web backends, before any request.
WIdle ==
    /\ sessions = <<>>
    /\ upload = <<>>
    /\ conversations = <<>>

\* The variables of the PatternAnalyzer driver, at rest.
AIdle ==
    /\ analysis = <<>>
    /\ apc = "idle"

\* The variables of the engine, at rest.
EIdle ==
    /\ analyzer = None
    /\ visualizer = None
    /\ loaded = FALSE
    /\ cacheFile = None
    /\ lpc = "idle"
    /\ lframe = <<>>
    /\ qpc = "idle"
    /\ qframe = <<>>
    /\ origin = <<>>
    /\ pre = None
    /\ everLoaded = FALSE
    /\ loadNo = 0

\* The variables of the similarity-search driver, at rest.
SIdle ==
    /\ searcher = None
    /\ user_profile = <<>>
    /\ top_k = 0
    /\ sortTies = <<>>
    /\ results = <<>>
    /\ spc = "idle"

GInit ==
    /\ mongo \in Collections
    /\ threshold \in Thresholds
    /\ builder = NewBuilder
    /\ gpc = "new"
    /\ SIdle
    /\ EIdle
    /\ AIdle
    /\ WIdle

\* GraphBuilder.load_from_mongodb: an empty result raises ValueError before
\* anything is assigned
GLoad ==
    /\ gpc = "new"
    /\ IF mongo = <<>>
       THEN /\ gpc' = "ValueError"
            /\ UNCHANGED builder
       ELSE /\ builder' = [builder EXCEPT !.embeddings = Some(LoadEmbeddings(mongo)),
                                          !.cases = LoadCases(mongo)]
            /\ gpc' = "loaded"
    /\ UNCHANGED <<wvars, mongo, threshold, svars, evars, avars>>

GBuild ==
    /\ gpc = "loaded"
    /\ builder' = [builder EXCEPT
                     !.G = build_graph(builder.cases, builder.embeddings, threshold)]
    /\ gpc' = "built"
    /\ UNCHANGED <<wvars, mongo, threshold, svars, evars, avars>>

GNext == GLoad \/ GBuild

SpecGraph == GInit /\ [][GNext]_vars

(***************************************************************************)
(* Properties of build_graph (SpecGraph).                                  *)
(***************************************************************************)
SimilarEdges(G) ==
    {e \in DOMAIN G.edges : G.edges[e].edge_type = "SIMILAR_TO"}

\* C4: in every graph build_graph produces, each SIMILAR_TO edge u -> v has
\* a SIMILAR_TO edge v -> u of the same weight, and u # v.
C4_SimilarSymmetric ==
    gpc = "built" =>
        \A e \in SimilarEdges(builder.G) :
            /\ e[1] # e[2]
            /\ <<e[2], e[1]>> \in SimilarEdges(builder.G)
            /\ builder.G.edges[<<e[2], e[1]>>].weight = builder.G.edges[e].weight

C4_Witness ==
    /\ gpc = "built"
    /\ Len(mongo) = 3
    /\ Cardinality(SimilarEdges(builder.G)) >= 4

\* The cosine similarity of two documents of the store, from their raw
\* embeddings.
RawCosine(a, b) == CosineSimilarity(Vec(a.embedding, 1), Vec(b.embedding, 1))

\* C5: after build_graph(threshold) a SIMILAR_TO pair links cases i < j if
\* and only if their cosine similarity is strictly greater than the
\* threshold, and no other SIMILAR_TO edge exists; with the three cases A, B,
\* C at threshold 0.99 the only pair is A <-> C.
C5_EdgeIffAboveThreshold ==
    gpc = "built" =>
        /\ SimilarEdges(builder.G) =
              UNION {{<<CaseId(q[1] - 1), CaseId(q[2] - 1)>>,
                      <<CaseId(q[2] - 1), CaseId(q[1] - 1)>>} :
                     q \in {p \in (DOMAIN mongo) \X (DOMAIN mongo) :
                                     /\ p[1] < p[2]
                                     /\ RLt(threshold,
                                            RawCosine(mongo[p[1]], mongo[p[2]]))}}
        /\ (mongo = <<DocA, DocB, DocC>> /\ threshold = <<99, 100>>) =>
              SimilarEdges(builder.G) = {<<"case_0", "case_2">>, <<"case_2", "case_0">>}

C5_Witness ==
    /\ gpc = "built"
    /\ mongo = <<DocA, DocB, DocC>>
    /\ threshold = <<99, 100>>
    /\ SimilarEdges(builder.G) = {<<"case_0", "case_2">>, <<"case_2", "case_0">>}

\* A pair whose similarity equals the threshold has been built without an edge.
C5_WitnessEqual ==
    /\ gpc = "built"
    /\ mongo = <<DocA, DocD>>
    /\ threshold = <<24, 25>>
    /\ SimilarEdges(builder.G) = {}

(***************************************************************************)
(* SimilaritySearch                                                        *)
(***************************************************************************)
\* str.lower() on the strings of the model
Lower(s) ==
    CASE s = "Consulting" -> "consulting"
      [] s = "Data Engineer" -> "data engineer"
      [] s = "Software Engineer" -> "software engineer"
      [] s = "Level I" -> "level i"
      [] s = "Level II" -> "level ii"
      [] s = "Level III" -> "level iii"
      [] s = "Level IV" -> "level iv"
      [] OTHER -> s

\* str.strip()
Strip(s) ==
    CASE s = "level iv " -> "level iv"
      [] s = " " -> ""
      [] OTHER -> s

\* str.split() of a lower-cased title, as a set of tokens
SplitTokens(s) ==
    CASE s = "data engineer" -> {"data", "engineer"}
      [] s = "software engineer" -> {"software", "engineer"}
      [] s = "engineer" -> {"engineer"}
      [] s = " " -> {}
      [] s = "" -> {}

JobTitleWeight == <<3, 10>>
CompanyTypeWeight == <<1, 5>>
WageLevelWeight == <<3, 20>>
RfeIssuesWeight == <<7, 20>>

\* similarity_search.py 104-110
job_title_sim(a, b) ==
    LET ta == SplitTokens(Lower(a))
        tb == SplitTokens(Lower(b))
    IN  IF ta = {} \/ tb = {} THEN RZero
        ELSE Rat(Cardinality(ta \cap tb), Cardinality(ta \cup tb))

\* similarity_search.py 115: the order table, with dict.get's default 0
WageOrder(s) ==
    CASE s = "level i" -> 1
      [] s = "level ii" -> 2
      [] s = "level iii" -> 3
      [] s = "level iv" -> 4
      [] OTHER -> 0

\* similarity_search.py 112-120
wage_level_sim(a, b) ==
    LET va == WageOrder(Strip(Lower(a)))
        vb == WageOrder(Strip(Lower(b)))
    IN  IF va = 0 \/ vb = 0 THEN RZero
        ELSE RSub(ROne, Rat(Abs(va - vb), 3))

\* similarity_search.py 122-126
jaccard(a, b) ==
    IF a = {} /\ b = {} THEN RZero
    ELSE IF a \cup b # {} THEN Rat(Cardinality(a \cap b), Cardinality(a \cup b))
         ELSE RZero

\* profile.get(key) of a string field and of a list field
PStr(profile, k) == Get(profile, k, "")
PList(profile, k) == Get(profile, k, <<>>)

\* similarity_search.py 77-94: the (score, weight) pairs appended, in order
MetaTerms(profile, case) ==
    (IF Truthy(PStr(profile, "job_title")) /\ Truthy(case.job_title)
     THEN <<[s |-> job_title_sim(profile.job_title, case.job_title),
             w |-> JobTitleWeight]>>
     ELSE <<>>)
    \o
    (IF Truthy(PStr(profile, "company_type")) /\ Truthy(case.company_type)
     THEN <<[s |-> IF Lower(profile.company_type) = Lower(case.company_type)
                   THEN ROne ELSE RZero,
             w |-> CompanyTypeWeight]>>
     ELSE <<>>)
    \o
    (IF Truthy(PStr(profile, "wage_level")) /\ Truthy(case.wage_level)
     THEN <<[s |-> wage_level_sim(profile.wage_level, case.wage_level),
             w |-> WageLevelWeight]>>
     ELSE <<>>)
    \o
    (IF TruthyList(PList(profile, "rfe_issues")) /\ TruthyList(case.rfe_issues)
     THEN <<[s |-> jaccard(Range(profile.rfe_issues), Range(case.rfe_issues)),
             w |-> RfeIssuesWeight]>>
     ELSE <<>>)

\* A variant that does not renormalise the weights over the compared fields.
metadata_similarity_NoRenorm(profile, case) ==
    LET terms == MetaTerms(profile, case)
    IN  RSum([i \in DOMAIN terms |-> RMul(terms[i].s, terms[i].w)])

\* SimilaritySearch._metadata_similarity
metadata_similarity(profile, case) ==
    LET terms == MetaTerms(profile, case)
        total_w == RSum([i \in DOMAIN terms |-> terms[i].w])
    IN  IF terms = <<>> THEN RZero
        ELSE RSum([i \in DOMAIN terms |->
                     RDiv(RMul(terms[i].s, terms[i].w), total_w)])

\* np.argsort(keys): the 0-based indices in ascending order of key.  The
\* default sort is not stable: equal keys come in the order ties gives, which
\* is fixed for one build (ties[i] < ties[j] puts position i first).
ArgSort(keys, ties) ==
    LET n == Len(keys)
        Before(i, j) == \/ RLt(keys[i], keys[j])
                        \/ keys[i] = keys[j] /\ ties[i] < ties[j]
    IN  List([k \in 1..n |->
                (CHOOSE i \in 1..n :
                    Cardinality({j \in 1..n : Before(j, i)}) = k - 1) - 1])

Reverse(s) == List([k \in 1..Len(s) |-> s[Len(s) + 1 - k]])

\* the last m entries of s: s[-m:] for 1 <= m <= len(s)
LastN(s, m) == SubSeq(s, Len(s) - m + 1, Len(s))

Min(a, b) == IF a < b THEN a ELSE b

RECURSIVE Lcm(_)
Lcm(s) == IF s = <<>> THEN 1
          ELSE LET l == Lcm(Tail(s)) IN (Head(s) * l) \div Gcd(Head(s), l)

\* embeddings[idx].mean(axis=0) for a non-empty sequence idx of 0-based indices
Centroid(embeddings, idx) ==
    LET rows == List([k \in DOMAIN idx |-> embeddings[idx[k] + 1]])
        L == Lcm([k \in DOMAIN rows |-> rows[k].den])
        dim == DOMAIN rows[1].num
        sum == List([d \in dim |->
                       RSum([k \in DOMAIN rows |->
                               <<rows[k].num[d] * (L \div rows[k].den), 1>>])[1]])
    IN  Vec(sum, L * Len(idx))

TopMetaCount == 10
MetaWeight == <<6, 10>>
EmbWeight == <<4, 10>>

\* similarity_search.py 28-31
MetaScores(S, profile) ==
    List([i \in DOMAIN S.cases |-> metadata_similarity(profile, S.cases[i])])

\* similarity_search.py 33-35
QueryCentroid(S, profile, ties) ==
    Centroid(S.embeddings,
             LastN(ArgSort(MetaScores(S, profile), ties),
                   Min(TopMetaCount, Len(S.cases))))

\* similarity_search.py 37-41 (cosine_similarity yields no NaN, so that
\* nan_to_num changes nothing)
EmbScores(S, profile, ties) ==
    LET centroid == QueryCentroid(S, profile, ties)
    IN  List([i \in DOMAIN S.cases |->
                CosineSimilarity(centroid, S.embeddings[i])])

\* similarity_search.py 42
Blend(meta, emb) == RAdd(RMul(MetaWeight, meta), RMul(EmbWeight, emb))

CombinedScores(S, profile, ties) ==
    LET meta == MetaScores(S, profile)
        emb == EmbScores(S, profile, ties)
    IN  List([i \in DOMAIN S.cases |-> Blend(meta[i], emb[i])])

\* similarity_search.py 45
RankedIdx(S, profile, ties) == Reverse(ArgSort(CombinedScores(S, profile, ties), ties))

RECURSIVE Pow10(_)
Pow10(d) == IF d = 0 THEN 1 ELSE 10 * Pow10(d - 1)

\* round(x, ndigits): to the nearest multiple of 10^-ndigits, a tie to the
\* even one
Round(x, ndigits) ==
    LET n == x[1] * Pow10(ndigits)
        q == n \div x[2]
        r == n % x[2]
    IN  Rat(IF 2 * r < x[2] THEN q
            ELSE IF 2 * r > x[2] THEN q + 1
            ELSE IF q % 2 = 0 THEN q ELSE q + 1,
            Pow10(ndigits))

Round4(x) == Round(x, 4)

\* A variant that deduplicates by index alone.
DedupKey_ByIndex(case, idx) == ToString(idx)

\* similarity_search.py 53: dedup_key = case_num if case_num else str(idx)
DedupKey(case, idx) ==
    IF Truthy(case.case_number) THEN case.case_number ELSE ToString(idx)

\* similarity_search.py 58-62: the case copied with its three scores
Scored(case, combined, meta, emb) ==
    [index |-> case.index,
     mongo_id |-> case.mongo_id,
     case_number |-> case.case_number,
     outcome |-> case.outcome,
     job_title |-> case.job_title,
     company_type |-> case.company_type,
     wage_level |-> case.wage_level,
     rfe_issues |-> case.rfe_issues,
     arguments_made |-> case.arguments_made,
     similarity_score |-> Round4(combined),
     metadata_score |-> Round4(meta),
     embedding_score |-> Round4(emb)]

\* similarity_search.py 49-65: the loop over ranked_idx from position k on
RECURSIVE DedupLoop(_, _, _, _, _, _, _)
DedupLoop(S, scores, ranked_idx, k, res, seen_cases, topk) ==
    IF k > Len(ranked_idx) THEN res
    ELSE LET idx == ranked_idx[k]
             dedup_key == DedupKey(S.cases[idx + 1], idx)
         IN  IF dedup_key \in seen_cases
             THEN DedupLoop(S, scores, ranked_idx, k + 1, res, seen_cases, topk)
             ELSE Only({IF Len(r1) >= topk THEN r1
                        ELSE DedupLoop(S, scores, ranked_idx, k + 1, r1,
                                       seen_cases \cup {dedup_key}, topk) :
                        r1 \in {Append(res,
                                       Scored(S.cases[idx + 1],
                                              scores.combined[idx + 1],
                                              scores.meta[idx + 1],
                                              scores.emb[idx + 1]))}})

\* SimilaritySearch.find_similar_cases
find_similar_cases(S, profile, topk, ties) ==
    Only({DedupLoop(S, scores, Reverse(ArgSort(scores.combined, ties)), 1,
                    <<>>, {}, topk) :
          scores \in {LET meta == MetaScores(S, profile)
                          emb == EmbScores(S, profile, ties)
                      IN  [meta |-> meta, emb |-> emb,
                           combined |-> List([i \in DOMAIN meta |->
                                                Blend(meta[i], emb[i])])]}})

(***************************************************************************)
(* SpecSearch: find_similar_cases on every corpus, profile and top_k of    *)
(* the bounded sets.  The corpus is one that load_from_mongodb produces.   *)
(***************************************************************************)
NoProfile == <<>>
CompanyOnly == [company_type |-> "consulting"]
FullProfile == [job_title |-> "Data Engineer", company_type |-> "consulting",
                wage_level |-> "Level II",
                rfe_issues |-> <<"wage_level", "specialty_occupation">>,
                current_arguments |-> <<"expert_letter">>]
PartProfile == [job_title |-> "Software Engineer", company_type |-> "",
                wage_level |-> "Level IV", rfe_issues |-> <<>>]
OddProfile == [job_title |-> " ", wage_level |-> "n/a",
               rfe_issues |-> <<"specialty_occupation">>]

Profiles == {NoProfile, CompanyOnly, FullProfile, PartProfile, OddProfile}

\* top_k's and top_k_highlight's default.
DefaultTopK == 20

\* top_k values: none, fewer than the corpus, and the callers' 20
TopKs == {0, 1, 2, 20}

\* Orders np.argsort may give equal keys: input order (what a stable sort
\* gives) and the reverse of it.
TieOrders(n) == {List([k \in 1..n |-> k]), List([k \in 1..n |-> n + 1 - k])}

NewSearcher(raw_cases) ==
    [cases |-> LoadCases(raw_cases), embeddings |-> LoadEmbeddings(raw_cases)]

\* The centroid of the query has an integer norm (see the module comment).
ExactQuery(S, profile, ties) == IsSquare(NormSq(QueryCentroid(S, profile, ties).num))

\* The variables of the GraphBuilder driver, at rest.
GIdle ==
    /\ mongo = <<>>
    /\ threshold = RZero
    /\ builder = NewBuilder
    /\ gpc = "idle"

SInit ==
    /\ GIdle
    /\ EIdle
    /\ AIdle
    /\ WIdle
    /\ \E raw_cases \in Collections \ {<<>>} :
          searcher = Some(NewSearcher(raw_cases))
    /\ sortTies \in TieOrders(Len(Val(searcher).cases))
    /\ user_profile = NoProfile
    /\ top_k = 0
    /\ results = <<>>
    /\ spc = "ready"

\* One call find_similar_cases(profile, top_k=k)
SFind(profile, k) ==
    /\ spc = "ready"
    /\ ExactQuery(Val(searcher), profile, sortTies)
    /\ user_profile' = profile
    /\ top_k' = k
    /\ results' = find_similar_cases(Val(searcher), profile, k, sortTies)
    /\ spc' = "returned"
    /\ UNCHANGED <<wvars, searcher, sortTies, gvars, evars, avars>>

SNext == \E profile \in Profiles, k \in TopKs : SFind(profile, k)

SpecSearch == SInit /\ [][SNext]_vars

(***************************************************************************)
(* SpecLarge: find_similar_cases on corpora of up to MaxCorpus cases, for   *)
(* profiles that share no field with any case.  The corpus is DocA         *)
(* throughout, but for at most two places that hold DocN, whose embedding  *)
(* is the opposite of DocA's.                                              *)
(***************************************************************************)
ArgsOnly == [current_arguments |-> <<"expert_letter">>]
BlankProfile == [job_title |-> "", company_type |-> "", wage_level |-> "",
                 rfe_issues |-> <<>>, current_arguments |-> <<>>]

NoFieldProfiles == {NoProfile, ArgsOnly, BlankProfile}

LargeCollections ==
    {List([k \in 1..n |-> IF k \in P THEN DocN ELSE DocA]) :
        n \in 1..MaxCorpus,
        P \in {Q \in SUBSET (1..MaxCorpus) : Cardinality(Q) <= 2}}

SLInit ==
    /\ GIdle
    /\ EIdle
    /\ AIdle
    /\ WIdle
    /\ \E raw_cases \in LargeCollections :
          searcher = Some(NewSearcher(raw_cases))
    /\ sortTies \in TieOrders(Len(Val(searcher).cases))
    /\ user_profile = NoProfile
    /\ top_k = 0
    /\ results = <<>>
    /\ spc = "ready"

SLNext == \E profile \in NoFieldProfiles : SFind(profile, DefaultTopK)

SpecLarge == SLInit /\ [][SLNext]_vars

(***************************************************************************)
(* Properties of find_similar_cases (SpecSearch).                          *)
(***************************************************************************)
Returned == spc = "returned"

\* The position of corpus index idx in the rank order ranked.
RankPos(ranked, idx) == CHOOSE k \in DOMAIN ranked : ranked[k] = idx

\* C6: find_similar_cases never returns more than top_k results, for any
\* top_k >= 0.
C6_AtMostTopK == Returned => Len(results) <= top_k

\* C7: the result holds no two cases with the same non-empty case_number and
\* no two cases with the same index, and a returned case with a case_number
\* is the first in rank order of the corpus cases with that case_number.
C7_NoDuplicates ==
    Returned =>
        /\ \A a, b \in DOMAIN results :
              a # b =>
                /\ results[a].index # results[b].index
                /\ results[a].case_number # "" =>
                      results[a].case_number # results[b].case_number
        /\ LET ranked == List(RankedIdx(Val(searcher), user_profile, sortTies))
           IN  \A a \in DOMAIN results :
                 results[a].case_number # "" =>
                   \A i \in DOMAIN Val(searcher).cases :
                       Val(searcher).cases[i].case_number = results[a].case_number
                           => RankPos(ranked, results[a].index)
                                 <= RankPos(ranked, i - 1)

\* Two corpus cases share a case_number and only one of them was returned,
\* although top_k left room for both.
C7_Witness ==
    /\ Returned
    /\ top_k = 20
    /\ \E i, j \in DOMAIN Val(searcher).cases :
          /\ i # j
          /\ Val(searcher).cases[i].case_number = "A-1"
          /\ Val(searcher).cases[j].case_number = "A-1"
    /\ Cardinality({a \in DOMAIN results : results[a].case_number = "A-1"}) = 1

\* The fields compared for a profile and a case: populated on both sides.
Compared(profile, case) ==
    {f \in {"job_title", "company_type", "wage_level"} :
        PStr(profile, f) # "" /\ case[f] # ""}
    \cup {f \in {"rfe_issues"} : PList(profile, f) # <<>> /\ case[f] # <<>>}

FieldWeight(f) ==
    CASE f = "job_title" -> <<30, 100>>
      [] f = "company_type" -> <<20, 100>>
      [] f = "wage_level" -> <<15, 100>>
      [] f = "rfe_issues" -> <<35, 100>>

FieldScore(f, profile, case) ==
    CASE f = "job_title" -> job_title_sim(profile.job_title, case.job_title)
      [] f = "company_type" ->
            IF Lower(profile.company_type) = Lower(case.company_type)
            THEN ROne ELSE RZero
      [] f = "wage_level" -> wage_level_sim(profile.wage_level, case.wage_level)
      [] f = "rfe_issues" ->
            jaccard(Range(profile.rfe_issues), Range(case.rfe_issues))

\* The sum of F over the fields in C.
SumOver(C, F(_)) ==
    RSum(<<IF "job_title" \in C THEN F("job_title") ELSE RZero,
           IF "company_type" \in C THEN F("company_type") ELSE RZero,
           IF "wage_level" \in C THEN F("wage_level") ELSE RZero,
           IF "rfe_issues" \in C THEN F("rfe_issues") ELSE RZero>>)

\* The weighted average of the field scores over the compared fields, the
\* weights renormalised to sum to 1 over them; 0 when nothing is compared.
WeightedAverage(profile, case) ==
    LET C == Compared(profile, case)
        Term(f) == RMul(FieldWeight(f), FieldScore(f, profile, case))
    IN  IF C = {} THEN RZero
        ELSE RDiv(SumOver(C, Term), SumOver(C, FieldWeight))

\* C8: the metadata score of every case is the weighted average of the field
\* scores over the fields populated in both the profile and the case, with
\* the weights renormalised over those fields, and 0 when there is none; it
\* lies in [0,1]; with only company_type set in the profile it is 1 on a
\* matching case and 0 on any other.
C8_MetadataScore ==
    Returned =>
        /\ \A i \in DOMAIN Val(searcher).cases :
              LET case == Val(searcher).cases[i]
                  score == MetaScores(Val(searcher), user_profile)[i]
              IN  /\ score = WeightedAverage(user_profile, case)
                  /\ RLe(RZero, score) /\ RLe(score, ROne)
                  /\ user_profile = CompanyOnly =>
                        score = IF Lower(case.company_type) = "consulting"
                                THEN ROne ELSE RZero
        /\ \A a \in DOMAIN results :
              results[a].metadata_score =
                  Round4(WeightedAverage(user_profile,
                                         Val(searcher).cases[results[a].index + 1]))

\* The company_type-only profile was scored against a matching and a
\* non-matching case.
C8_Witness ==
    /\ Returned
    /\ user_profile = CompanyOnly
    /\ \E a, b \in DOMAIN results :
          /\ results[a].company_type = "consulting"
          /\ results[a].metadata_score = ROne
          /\ results[b].company_type = "staffing"
          /\ results[b].metadata_score = RZero

\* C9: the combined score of every returned case lies in [0,1].
C9_CombinedInUnit ==
    Returned =>
        \A a \in DOMAIN results :
            /\ RLe(RZero, results[a].similarity_score)
            /\ RLe(results[a].similarity_score, ROne)

\* C10: the returned cases are in non-increasing order of combined score,
\* two cases of equal combined score in corpus order (lower index first),
\* and a second call with the same corpus and profile returns the same.
C10_OrderedStableTies ==
    Returned =>
        LET combined == CombinedScores(Val(searcher), user_profile, sortTies)
        IN  /\ \A a, b \in DOMAIN results :
                  a < b =>
                    /\ RLe(combined[results[b].index + 1],
                           combined[results[a].index + 1])
                    /\ combined[results[a].index + 1] =
                          combined[results[b].index + 1]
                          => results[a].index < results[b].index
            /\ results = find_similar_cases(Val(searcher), user_profile, top_k,
                                            sortTies)

\* C11: for a profile with no comparable field every case's metadata score
\* is 0 and the synthetic query embedding is the unweighted centroid of the
\* embeddings of all the cases of the corpus, whatever its size.
C11_CentroidOfAllCases ==
    (Returned /\ user_profile \in NoFieldProfiles) =>
        LET S == Val(searcher)
        IN  /\ \A i \in DOMAIN S.cases :
                  MetaScores(S, user_profile)[i] = RZero
            /\ QueryCentroid(S, user_profile, sortTies)
                  = Centroid(S.embeddings, List([k \in DOMAIN S.cases |-> k - 1]))

\* C27: when fewer than top_k cases are returned, every case of the corpus
\* is in the result or has a non-empty case_number that a returned case has
\* too; in particular a case without a case_number is in the result.
C27_DroppedOnlyAsDuplicate ==
    (Returned /\ Len(results) < top_k) =>
        \A i \in DOMAIN Val(searcher).cases :
            LET case == Val(searcher).cases[i]
            IN  \/ \E a \in DOMAIN results : results[a].index = case.index
                \/ /\ case.case_number # ""
                   /\ \E a \in DOMAIN results :
                         results[a].case_number = case.case_number

(***************************************************************************)
(* PatternAnalyzer (pattern_analyzer.py).  A dict keyed by argument is a   *)
(* sequence of records with an "arg" field, in the dict's iteration order. *)
(***************************************************************************)
\* sorted() on argument tags: the tags in alphabetical order.
ArgumentOrder == <<"expert_letter", "onet_citation", "prior_approvals">>

\* PatternAnalyzer.__init__
NewAnalyzer(G, cases) == [G |-> G, cases |-> cases]

\* pattern_analyzer.py 255-265
confidence_label(sample_size) ==
    IF sample_size < 3 THEN "very_low"
    ELSE IF sample_size < 5 THEN "low"
    ELSE IF sample_size < 10 THEN "medium"
    ELSE IF sample_size < 20 THEN "high"
    ELSE "very_high"

\* sorted(items, key=lambda x: -Key(x)): a stable sort, largest key first.
SortDescending(seq, Key(_)) ==
    LET n == Len(seq)
        Before(i, j) == \/ RLt(Key(seq[j]), Key(seq[i]))
                        \/ (Key(seq[i]) = Key(seq[j]) /\ i < j)
        Place(i) == Cardinality({j \in 1..n : Before(j, i)}) + 1
    IN  List([k \in 1..n |-> seq[CHOOSE i \in 1..n : Place(i) = k]])

\* A variant of the test at pattern_analyzer.py 189 that counts a remanded
\* case as a success.
IsSustained_OrRemanded(c) == c.outcome \in {"SUSTAINED", "REMANDED"}

\* pattern_analyzer.py 189-190: c.get("outcome") == "SUSTAINED"
IsSustained(c) == c.outcome = "SUSTAINED"

\* pattern_analyzer.py 186-202: the entry of one argument
CounterfactualStat(cases, arg) ==
    LET with_arg == SelectSeq(cases, LAMBDA c : arg \in Range(c.arguments_made))
        without_arg == SelectSeq(cases, LAMBDA c : arg \notin Range(c.arguments_made))
        with_success == Len(SelectSeq(with_arg, IsSustained))
        without_success == Len(SelectSeq(without_arg, IsSustained))
        with_rate == IF with_arg # <<>> THEN Rat(with_success, Len(with_arg))
                     ELSE RZero
        without_rate == IF without_arg # <<>>
                        THEN Rat(without_success, Len(without_arg))
                        ELSE RZero
    IN  [arg |-> arg,
         with_count |-> Len(with_arg),
         without_count |-> Len(without_arg),
         with_success_rate |-> Round(with_rate, 3),
         without_success_rate |-> Round(without_rate, 3),
         impact |-> Round(RSub(with_rate, without_rate), 3),
         confidence |-> confidence_label(Len(with_arg))]

\* pattern_analyzer.py 173-204
counterfactual_analysis(self, cases_subset) ==
    LET cases == IF cases_subset # <<>> THEN cases_subset ELSE self.cases
        all_args == UNION {Range(cases[i].arguments_made) : i \in DOMAIN cases}
        sorted_args == SelectSeq(ArgumentOrder, LAMBDA a : a \in all_args)
        stats == List([k \in DOMAIN sorted_args |->
                          CounterfactualStat(cases, sorted_args[k])])
    IN  SortDescending(stats, LAMBDA st : st.impact)

\* A variant of the clamp at pattern_analyzer.py 237 that lets the sum through.
Clamp_None(x) == x

\* pattern_analyzer.py 237: min(1.0, max(0.0, x))
Clamp(x) == IF RLt(x, RZero) THEN RZero ELSE IF RLt(ROne, x) THEN ROne ELSE x

\* A variant of the result at pattern_analyzer.py 216 that reports an even chance.
NoSimilarCases_EvenChance ==
    [probability |-> <<1, 2>>, basis |-> "no similar cases", sample_size |-> 0]

\* pattern_analyzer.py 216
NoSimilarCases ==
    [probability |-> RZero, basis |-> "no similar cases", sample_size |-> 0]

\* pattern_analyzer.py 219-225: the similarity-weighted share of sustained cases
BaseProbability(similar_cases) ==
    LET n == Len(similar_cases)
        weights == List([k \in 1..n |->
                            Get(similar_cases[k], "similarity_score", <<1, 2>>)])
        outcomes == List([k \in 1..n |->
                            IF IsSustained(similar_cases[k]) THEN ROne ELSE RZero])
        total == RSum(weights)
    IN  IF total = RZero THEN RDiv(RSum(outcomes), Rat(n, 1))
        ELSE RDiv(RSum(List([k \in 1..n |-> RMul(outcomes[k], weights[k])])),
                  total)

\* A variant of pattern_analyzer.py 231-235 that adds the impact of every
\* argument of the profile, whatever its sign.
ArgumentBoost_Signed(self, profile, similar_cases) ==
    LET counterfactuals == counterfactual_analysis(self, similar_cases)
        user_args == Range(PList(profile, "current_arguments"))
    IN  RSum(List([k \in DOMAIN counterfactuals |->
                     IF counterfactuals[k].arg \in user_args
                     THEN RMul(counterfactuals[k].impact, <<3, 10>>)
                     ELSE RZero]))

\* pattern_analyzer.py 228-235
ArgumentBoost(self, profile, similar_cases) ==
    LET counterfactuals == counterfactual_analysis(self, similar_cases)
        user_args == Range(PList(profile, "current_arguments"))
    IN  RSum(List([k \in DOMAIN counterfactuals |->
                     IF /\ counterfactuals[k].arg \in user_args
                        /\ RLt(RZero, counterfactuals[k].impact)
                     THEN RMul(counterfactuals[k].impact, <<3, 10>>)
                     ELSE RZero]))

\* pattern_analyzer.py 210-249
calculate_success_probability(self, profile, similar_cases) ==
    IF similar_cases = <<>> THEN NoSimilarCases
    ELSE LET base_prob == BaseProbability(similar_cases)
             boost == ArgumentBoost(self, profile, similar_cases)
             adjusted == Clamp(RAdd(base_prob, boost))
             sustained_count == Len(SelectSeq(similar_cases, IsSustained))
         IN  [probability |-> Round(adjusted, 3),
              base_probability |-> Round(base_prob, 3),
              argument_boost |-> Round(boost, 3),
              sustained_in_similar |-> sustained_count,
              sample_size |-> Len(similar_cases),
              confidence |-> confidence_label(Len(similar_cases))]

(***************************************************************************)
(* RecommendationEngine._build_recommendations (strategy_engine.py).  An   *)
(* item "kind:value" of a rule's antecedent is the record of its two       *)
(* parts.  A rule is shown by the keys the builder reads.                   *)
(***************************************************************************)
Item(kind, value) == [kind |-> kind, value |-> value]
Rule(antecedent, confidence, sample_size) ==
    [antecedent |-> antecedent, confidence |-> confidence,
     sample_size |-> sample_size]

\* A variant of strategy_engine.py 318-327 whose "high" ends at 20 inclusive.
conf_label_Inclusive(n) ==
    IF n < 3 THEN "very_low"
    ELSE IF n < 5 THEN "low"
    ELSE IF n < 10 THEN "medium"
    ELSE IF n <= 20 THEN "high"
    ELSE "very_high"

\* strategy_engine.py 318-327
conf_label(n) ==
    IF n < 3 THEN "very_low"
    ELSE IF n < 5 THEN "low"
    ELSE IF n < 10 THEN "medium"
    ELSE IF n < 20 THEN "high"
    ELSE "very_high"

\* round(x * 100)
Percent(x) == Round(RMul(x, <<100, 1>>), 0)[1]

\* strategy_engine.py 158-161: the arguments named by a rule's antecedent
ArgItems(rule) ==
    LET args == SelectSeq(rule.antecedent, LAMBDA a : a.kind = "arg")
    IN  List([k \in DOMAIN args |-> args[k].value])

\* A variant of the tests at strategy_engine.py 143 and 163 that lets every
\* argument through.
AlreadyArgued_Never(arg, user_args) == FALSE

\* strategy_engine.py 143, 163: arg in user_args
AlreadyArgued(arg, user_args) == arg \in user_args

\* strategy_engine.py 146-154
CounterfactualRec(stats) ==
    [add |-> stats.arg,
     impact |-> <<"+", Percent(stats.impact), "% success rate">>,
     impact_raw |-> stats.impact,
     with_success_rate |-> stats.with_success_rate,
     sample_size |-> stats.with_count,
     confidence |-> stats.confidence,
     source |-> "counterfactual"]

\* strategy_engine.py 172-180
RuleRec(arg, rule) ==
    [add |-> arg,
     impact |-> <<"appears in ", Percent(rule.confidence),
                  "%-confidence winning rule">>,
     impact_raw |-> RMul(rule.confidence, <<1, 2>>),
     with_success_rate |-> rule.confidence,
     sample_size |-> rule.sample_size,
     confidence |-> conf_label(rule.sample_size),
     source |-> "association_rule"]

\* strategy_engine.py 142-154: the entries of the counterfactual table
FromCounterfactuals(counterfactuals, user_args) ==
    LET keep == SelectSeq(counterfactuals,
                          LAMBDA stats : /\ ~AlreadyArgued(stats.arg, user_args)
                                         /\ RLt(RZero, stats.impact)
                                         /\ stats.with_count >= 2)
    IN  List([k \in DOMAIN keep |-> CounterfactualRec(keep[k])])

\* A variant of strategy_engine.py 169-170 that sets the label whatever it was.
UpgradedLabel_Always(existing, rule) ==
    IF RLt(<<7, 10>>, rule.confidence) THEN "medium" ELSE existing.confidence

\* strategy_engine.py 169-170
UpgradedLabel(existing, rule) ==
    IF /\ RLt(<<7, 10>>, rule.confidence)
       /\ existing.confidence \in {"low", "very_low"}
    THEN "medium"
    ELSE existing.confidence

\* strategy_engine.py 163-180: one argument of one rule
AddRuleArg(recs, arg, rule, user_args) ==
    IF AlreadyArgued(arg, user_args) THEN recs
    ELSE IF \E k \in DOMAIN recs : recs[k].add = arg
    THEN LET k == CHOOSE i \in DOMAIN recs :
                      /\ recs[i].add = arg
                      /\ \A j \in 1..(i - 1) : recs[j].add # arg
         IN  [recs EXCEPT ![k].confidence = UpgradedLabel(recs[k], rule)]
    ELSE Append(recs, RuleRec(arg, rule))

\* strategy_engine.py 162: for arg in arg_items
RECURSIVE AddRuleArgs(_, _, _, _)
AddRuleArgs(recs, arg_items, rule, user_args) ==
    IF arg_items = <<>> THEN recs
    ELSE AddRuleArgs(AddRuleArg(recs, Head(arg_items), rule, user_args),
                     Tail(arg_items), rule, user_args)

\* strategy_engine.py 157: for rule in rules
RECURSIVE FromRules(_, _, _)
FromRules(recs, rules, user_args) ==
    IF rules = <<>> THEN recs
    ELSE FromRules(AddRuleArgs(recs, ArgItems(Head(rules)), Head(rules), user_args),
                   Tail(rules), user_args)

\* A variant of strategy_engine.py 182 that leaves the list as built.
SortByImpact_Unsorted(recs) == recs

\* strategy_engine.py 182: recs.sort(key=lambda r: -r["impact_raw"])
SortByImpact(recs) == SortDescending(recs, LAMBDA r : r.impact_raw)

\* strategy_engine.py 185-186: del r["impact_raw"]
DropImpactRaw(r) == [k \in DOMAIN r \ {"impact_raw"} |-> r[k]]

\* strategy_engine.py 135-188
build_recommendations(profile, counterfactuals, rules) ==
    LET user_args == Range(PList(profile, "current_arguments"))
        recs == FromRules(FromCounterfactuals(counterfactuals, user_args),
                          rules, user_args)
        sorted == SortByImpact(recs)
    IN  List([k \in DOMAIN sorted |-> DropImpactRaw(sorted[k])])

(***************************************************************************)
(* RecommendationEngine._extract_winning_patterns (strategy_engine.py) and *)
(* PatternAnalyzer.analyze_argument_patterns (pattern_analyzer.py).         *)
(***************************************************************************)
\* sorted() on a list of argument tags
SortedArgs(l) ==
    SelectSeq(l, LAMBDA a : a = ArgumentOrder[1])
        \o SelectSeq(l, LAMBDA a : a = ArgumentOrder[2])
        \o SelectSeq(l, LAMBDA a : a = ArgumentOrder[3])

\* strategy_engine.py 220-224: the Counter of the sorted argument tuples of
\* the cases, its keys in insertion order
RECURSIVE CountCombos(_, _)
CountCombos(counter, cases) ==
    IF cases = <<>> THEN counter
    ELSE LET args == SortedArgs(Head(cases).arguments_made)
             seen == {k \in DOMAIN counter : counter[k].combo = args}
         IN  CountCombos(IF args = <<>> THEN counter
                         ELSE IF seen # {}
                         THEN [counter EXCEPT ![Only(seen)].count = @ + 1]
                         ELSE Append(counter, [combo |-> args, count |-> 1]),
                         Tail(cases))

\* strategy_engine.py 227: most_common(5)
TopPatterns == 5

\* Counter.most_common(n): the n entries of highest count, equal counts in
\* insertion order
MostCommon(counter, n) ==
    LET sorted == SortDescending(counter, LAMBDA e : <<e.count, 1>>)
    IN  SubSeq(sorted, 1, Min(n, Len(sorted)))

\* strategy_engine.py 229-242: the pattern of one combination
WinningPattern(similar_cases, combo, count) ==
    LET dismissed_with ==
            Len(SelectSeq(similar_cases,
                          LAMBDA c : /\ c.outcome = "DISMISSED"
                                     /\ Range(combo) \subseteq Range(c.arguments_made)))
        total_with == count + dismissed_with
        rate == IF total_with # 0 THEN Rat(count, total_with) ELSE RZero
    IN  [arguments |-> combo,
         success_rate |-> Round(rate, 3),
         sustained_count |-> count,
         sample_size |-> total_with]

\* strategy_engine.py 211-245
extract_winning_patterns(similar_cases) ==
    LET sustained == SelectSeq(similar_cases, IsSustained)
        top == MostCommon(CountCombos(<<>>, sustained), TopPatterns)
        patterns == List([k \in DOMAIN top |->
                             WinningPattern(similar_cases, top[k].combo, top[k].count)])
    IN  IF sustained = <<>> THEN <<>>
        ELSE SortDescending(patterns, LAMBDA pt : pt.success_rate)

\* str.upper() on the outcome strings of the model
Upper(s) ==
    CASE s = "sustained" -> "SUSTAINED"
      [] OTHER -> s

\* pattern_analyzer.py 33: the entry a new key of arg_stats gets
NewTally(arg) ==
    [arg |-> arg, sustained |-> 0, dismissed |-> 0, remanded |-> 0, total |-> 0]

\* pattern_analyzer.py 38-45: one entry of arguments_made is tallied
TallyArg(arg_stats, arg, outcome) ==
    LET stats == IF \E k \in DOMAIN arg_stats : arg_stats[k].arg = arg
                 THEN arg_stats
                 ELSE Append(arg_stats, NewTally(arg))
        k == CHOOSE i \in DOMAIN stats : stats[i].arg = arg
    IN  [stats EXCEPT
            ![k].total = @ + 1,
            ![k].sustained = IF outcome = "SUSTAINED" THEN @ + 1 ELSE @,
            ![k].dismissed = IF outcome = "DISMISSED" THEN @ + 1 ELSE @,
            ![k].remanded = IF outcome = "REMANDED" THEN @ + 1 ELSE @]

\* pattern_analyzer.py 37: for arg in c.get("arguments_made", [])
RECURSIVE TallyArgs(_, _, _)
TallyArgs(arg_stats, args, outcome) ==
    IF args = <<>> THEN arg_stats
    ELSE TallyArgs(TallyArg(arg_stats, Head(args), outcome), Tail(args), outcome)

\* pattern_analyzer.py 35: for c in similar_cases
RECURSIVE TallyCases(_, _)
TallyCases(arg_stats, cases) ==
    IF cases = <<>> THEN arg_stats
    ELSE TallyCases(TallyArgs(arg_stats, Head(cases).arguments_made,
                              Upper(Head(cases).outcome)),
                    Tail(cases))

\* pattern_analyzer.py 47-57
ArgPattern(stats) ==
    [arg |-> stats.arg,
     success_rate |-> Round(IF stats.total # 0
                            THEN Rat(stats.sustained, stats.total) ELSE RZero, 3),
     sustained |-> stats.sustained,
     dismissed |-> stats.dismissed,
     remanded |-> stats.remanded,
     total |-> stats.total,
     confidence |-> confidence_label(stats.total)]

\* pattern_analyzer.py 28-60
analyze_argument_patterns(similar_cases) ==
    LET arg_stats == TallyCases(<<>>, similar_cases)
        results_ == List([k \in DOMAIN arg_stats |-> ArgPattern(arg_stats[k])])
    IN  SortDescending(results_, LAMBDA e : e.success_rate)

(***************************************************************************)
(* PatternAnalyzer._fallback_rules (pattern_analyzer.py).                   *)
(***************************************************************************)
\* The feature strings "kind:value" of the model in string order.
FeatureOrder ==
    <<Item("arg", "expert_letter"), Item("arg", "onet_citation"),
      Item("arg", "prior_approvals"), Item("comptype", "Consulting"),
      Item("comptype", "consulting"), Item("comptype", "staffing"),
      Item("comptype", "unknown"), Item("rfe", "specialty_occupation"),
      Item("rfe", "wage_level")>>

FeatureRank(f) == CHOOSE k \in DOMAIN FeatureOrder : FeatureOrder[k] = f

\* pattern_analyzer.py 132-139: the features of one case, in order
Features(c) ==
    (IF Truthy(c.company_type) THEN <<Item("comptype", c.company_type)>> ELSE <<>>)
        \o List([k \in DOMAIN c.arguments_made |-> Item("arg", c.arguments_made[k])])
        \o List([k \in DOMAIN c.rfe_issues |-> Item("rfe", c.rfe_issues[k])])

\* pattern_analyzer.py 142-150: the keys one case counts, in order: a single
\* for every feature, then the sorted pair of every two places i < j
ComboKeys(features) ==
    LET n == Len(features)
        PairAt(i, j) == IF FeatureRank(features[i]) <= FeatureRank(features[j])
                        THEN <<features[i], features[j]>>
                        ELSE <<features[j], features[i]>>
        pairs == {<<i, j>> \in (1..n) \X (1..n) : i < j}
        Place(q) == Cardinality({r \in pairs :
                        r[1] < q[1] \/ (r[1] = q[1] /\ r[2] < q[2])}) + 1
    IN  List([k \in 1..n |-> <<features[k]>>])
            \o List([k \in 1..Cardinality(pairs) |->
                        LET q == CHOOSE r \in pairs : Place(r) = k
                        IN  PairAt(q[1], q[2])])

\* combo_stats[key]["total"] += 1, and "sustained" for a sustained case
RECURSIVE CountKeys(_, _, _)
CountKeys(combo_stats, keys, won) ==
    IF keys = <<>> THEN combo_stats
    ELSE LET at == {k \in DOMAIN combo_stats : combo_stats[k].combo = Head(keys)}
             stats == IF at # {} THEN combo_stats
                      ELSE Append(combo_stats,
                                  [combo |-> Head(keys), sustained |-> 0, total |-> 0])
             k == IF at # {} THEN Only(at) ELSE Len(stats)
         IN  Only({CountKeys(next, Tail(keys), won) :
                      next \in {[stats EXCEPT
                                   ![k].total = @ + 1,
                                   ![k].sustained = IF won THEN @ + 1 ELSE @]}})

\* pattern_analyzer.py 130-150: for c in self.cases
RECURSIVE ScanCases(_, _)
ScanCases(combo_stats, cases) ==
    IF cases = <<>> THEN combo_stats
    ELSE Only({ScanCases(next, Tail(cases)) :
                  next \in {CountKeys(combo_stats, ComboKeys(Features(Head(cases))),
                                      Head(cases).outcome = "SUSTAINED")}})

\* pattern_analyzer.py 158-164
FallbackRule(stats, ncases) ==
    [antecedent |-> stats.combo,
     confidence |-> Round(Rat(stats.sustained, stats.total), 3),
     support |-> Round(Rat(stats.total, ncases), 3),
     lift |-> RZero,
     sample_size |-> stats.total]

\* pattern_analyzer.py 127-167
fallback_rules(self, min_confidence) ==
    LET combo_stats == ScanCases(<<>>, self.cases)
        kept == SelectSeq(combo_stats,
                          LAMBDA stats : /\ ~(stats.total < 2)
                                         /\ RLe(min_confidence,
                                                Rat(stats.sustained, stats.total)))
        rules == List([k \in DOMAIN kept |-> FallbackRule(kept[k], Len(self.cases))])
    IN  SortDescending(rules, LAMBDA rule : rule.confidence)

(***************************************************************************)
(* SpecAnalysis: the analyzer's computations on every list of at most      *)
(* MaxSimilar similar cases drawn from SimilarPool.  A similar case is     *)
(* shown by the keys the analyzer reads.  The list is in the order         *)
(* find_similar_cases returns: best similarity score first.                *)
(***************************************************************************)
SimilarCase(outcome, arguments_made, score) ==
    [outcome |-> outcome, arguments_made |-> arguments_made,
     similarity_score |-> score]

SimilarPool ==
    <<SimilarCase("SUSTAINED", <<"expert_letter">>, ROne),
      SimilarCase("SUSTAINED", <<>>, ROne),
      SimilarCase("SUSTAINED", <<"expert_letter", "prior_approvals">>, <<1, 2>>),
      SimilarCase("DISMISSED", <<"expert_letter">>, <<1, 2>>),
      SimilarCase("REMANDED", <<"onet_citation">>, <<1, 2>>),
      SimilarCase("SUSTAINED", <<"expert_letter", "expert_letter">>, <<1, 2>>),
      SimilarCase("sustained", <<"onet_citation">>, <<1, 2>>),
      SimilarCase("DISMISSED", <<>>, RZero),
      SimilarCase("DISMISSED", <<"prior_approvals">>, <<-1, 2>>)>>

\* The lists of at most MaxSimilar pool cases in pool order.
SimilarLists ==
    LET Picks(n) == {p \in [1..n -> DOMAIN SimilarPool] :
                        \A i \in 1..(n - 1) : p[i] <= p[i + 1]}
    IN  UNION {{List([k \in 1..n |-> SimilarPool[p[k]]]) : p \in Picks(n)} :
                  n \in 0..MaxSimilar}

\* The sorted argument combinations.
ArgCombos ==
    <<<<"expert_letter">>, <<"onet_citation">>, <<"prior_approvals">>,
      <<"expert_letter", "onet_citation">>, <<"expert_letter", "prior_approvals">>,
      <<"onet_citation", "prior_approvals">>,
      <<"expert_letter", "onet_citation", "prior_approvals">>>>

\* Lists with more sustained combinations than _extract_winning_patterns
\* returns: one sustained case for each of the first n combinations, a second
\* one for combination twice (none for 0), and dismissed cases using every
\* argument.
CombinationLists ==
    {List([k \in 1..n |-> SimilarCase("SUSTAINED", ArgCombos[k], ROne)])
        \o (IF twice = 0 THEN <<>>
            ELSE <<SimilarCase("SUSTAINED", ArgCombos[twice], ROne)>>)
        \o List([k \in 1..d |-> SimilarCase("DISMISSED", ArgCombos[7], <<1, 2>>)]) :
        n \in 6..7, twice \in 0..7, d \in 0..1}

TwoArgsProfile == [company_type |-> "consulting",
                   current_arguments |-> <<"expert_letter", "prior_approvals">>]
AnalysisProfiles == {NoProfile, ArgsOnly, TwoArgsProfile}

\* Rules find_association_rules may return, best confidence first.
RulePool ==
    <<Rule(<<Item("arg", "onet_citation")>>, <<9, 10>>, 12),
      Rule(<<Item("arg", "expert_letter")>>, <<4, 5>>, 6),
      Rule(<<Item("arg", "expert_letter"), Item("arg", "onet_citation")>>,
           <<3, 4>>, 3),
      Rule(<<Item("arg", "prior_approvals"), Item("comptype", "consulting")>>,
           <<3, 5>>, 2)>>

\* The elements of s at the places in I, in order.
SubSeqAt(s, I) ==
    List([k \in 1..Cardinality(I) |->
             s[CHOOSE i \in I : Cardinality({j \in I : j < i}) = k - 1]])

RuleLists == {SubSeqAt(RulePool, I) : I \in SUBSET DOMAIN RulePool}

\* The corpus the analyzer was built on.
AnalyzerCorpus == LoadCases(<<DocA, DocC, DocB>>)

AInit ==
    /\ GIdle
    /\ searcher = None
    /\ user_profile = NoProfile
    /\ top_k = 0
    /\ sortTies = <<>>
    /\ spc = "idle"
    /\ \E similar \in SimilarLists \cup CombinationLists : results = similar
    /\ analyzer = Some(NewAnalyzer(EmptyGraph, AnalyzerCorpus))
    /\ visualizer = None
    /\ loaded = FALSE
    /\ cacheFile = None
    /\ lpc = "idle"
    /\ lframe = <<>>
    /\ qpc = "idle"
    /\ qframe = <<>>
    /\ origin = <<>>
    /\ pre = None
    /\ everLoaded = FALSE
    /\ loadNo = 0
    /\ AIdle
    /\ WIdle

\* One call counterfactual_analysis(results)
ACounterfactual ==
    /\ apc = "idle"
    /\ analysis' = counterfactual_analysis(Val(analyzer), results)
    /\ apc' = "counterfactuals"
    /\ UNCHANGED <<wvars, gvars, svars, evars>>

\* One call calculate_success_probability(profile, results)
AProbability(profile) ==
    /\ apc = "idle"
    /\ user_profile' = profile
    /\ analysis' = calculate_success_probability(Val(analyzer), profile, results)
    /\ apc' = "probability"
    /\ UNCHANGED <<wvars, gvars, searcher, top_k, sortTies, results, spc, evars>>

\* The builder called as recommend_strategy calls it, on the counterfactual
\* table of the similar cases.
ARecommend(profile, rules) ==
    /\ apc = "idle"
    /\ user_profile' = profile
    /\ LET counterfactuals == counterfactual_analysis(Val(analyzer), results)
       IN  analysis' = [counterfactuals |-> counterfactuals,
                        rules |-> rules,
                        recommendations |->
                            build_recommendations(profile, counterfactuals, rules)]
    /\ apc' = "recommendations"
    /\ UNCHANGED <<wvars, gvars, searcher, top_k, sortTies, results, spc, evars>>

\* One call _extract_winning_patterns(results)
AWinning ==
    /\ apc = "idle"
    /\ analysis' = extract_winning_patterns(results)
    /\ apc' = "winning"
    /\ UNCHANGED <<wvars, gvars, svars, evars>>

\* One call analyze_argument_patterns(results)
AEffectiveness ==
    /\ apc = "idle"
    /\ analysis' = analyze_argument_patterns(results)
    /\ apc' = "patterns"
    /\ UNCHANGED <<wvars, gvars, svars, evars>>

\* _confidence_label(n) and _conf_label(n) for one sample size
ALabel(n) ==
    /\ apc = "idle"
    /\ analysis' = [n |-> n, confidence_label |-> confidence_label(n),
                    conf_label |-> conf_label(n)]
    /\ apc' = "label"
    /\ UNCHANGED <<wvars, gvars, svars, evars>>

\* The caller drops the value returned.
AReturn ==
    /\ apc # "idle"
    /\ user_profile' = NoProfile
    /\ analysis' = <<>>
    /\ apc' = "idle"
    /\ UNCHANGED <<wvars, gvars, searcher, top_k, sortTies, results, spc, evars>>

ANext ==
    \/ AReturn
    \/ AWinning
    \/ AEffectiveness
    \/ \E n \in 0..MaxSample : ALabel(n)
    \/ ACounterfactual
    \/ \E profile \in AnalysisProfiles : AProbability(profile)
    \/ \E profile \in AnalysisProfiles, rules \in RuleLists :
          ARecommend(profile, rules)

SpecAnalysis == AInit /\ [][ANext]_vars

(***************************************************************************)
(* Properties of the analyzer (SpecAnalysis).                              *)
(***************************************************************************)
\* The cases a call counterfactual_analysis(results) analyses.
Analysed == IF results # <<>> THEN results ELSE Val(analyzer).cases

Using(arg) == {i \in DOMAIN Analysed : arg \in Range(Analysed[i].arguments_made)}
NotUsing(arg) == DOMAIN Analysed \ Using(arg)
Favourable(I) == {i \in I : Analysed[i].outcome = "SUSTAINED"}
Share(I) == IF I = {} THEN RZero ELSE Rat(Cardinality(Favourable(I)), Cardinality(I))
InUnit(x) == RLe(RZero, x) /\ RLe(x, ROne)

\* The table holds one entry for every argument of the analysed cases.
OneEntryPerArgument ==
    /\ {analysis[k].arg : k \in DOMAIN analysis}
          = UNION {Range(Analysed[i].arguments_made) : i \in DOMAIN Analysed}
    /\ \A j, k \in DOMAIN analysis : analysis[j].arg = analysis[k].arg => j = k

\* Argument X in 2 favourable cases and in no other; 1 favourable and 1
\* unfavourable case without it.
FourCaseScenario ==
    <<SimilarPool[1], SimilarPool[1], SimilarPool[2], SimilarPool[8]>>

C12_WitnessRounded ==
    /\ apc = "counterfactuals"
    /\ \E k \in DOMAIN analysis :
          analysis[k].with_success_rate # Share(Using(analysis[k].arg))

\* The sum calculate_success_probability clamps, for the call just made.
RawProbability ==
    RAdd(BaseProbability(results),
         ArgumentBoost(Val(analyzer), user_profile, results))

\* C13: the probability returned by calculate_success_probability lies in
\* [0,1] for every profile and every list of similar cases, also when the base
\* probability plus the argument boost is above 1 or below 0.
C13_ProbabilityInUnit ==
    apc = "probability" => InUnit(analysis.probability)

\* The base probability plus the boost was above 1.
C13_Witness ==
    /\ apc = "probability"
    /\ results # <<>>
    /\ RLt(ROne, RawProbability)
    /\ analysis.probability = ROne

\* The base probability plus the boost was below 0.
C13_WitnessBelow ==
    /\ apc = "probability"
    /\ results # <<>>
    /\ RLt(RawProbability, RZero)
    /\ analysis.probability = RZero

\* C14: calculate_success_probability called with no similar case returns
\* probability 0.0 and sample_size 0, for any profile.
C14_NoSimilarCases ==
    (apc = "probability" /\ results = <<>>) =>
        /\ analysis.probability = RZero
        /\ analysis.sample_size = 0

C14_Witness ==
    /\ apc = "probability"
    /\ results = <<>>
    /\ user_profile = TwoArgsProfile
    /\ analysis.sample_size = 0

Recommended == apc = "recommendations"
UserArgs == Range(PList(user_profile, "current_arguments"))

\* The entries of the counterfactual table that qualify as candidates.
Candidates ==
    {k \in DOMAIN analysis.counterfactuals :
        /\ RLt(RZero, analysis.counterfactuals[k].impact)
        /\ analysis.counterfactuals[k].with_count >= 2}

\* The rules whose antecedent names arg.
Naming(arg) ==
    {k \in DOMAIN analysis.rules :
        \E i \in DOMAIN analysis.rules[k].antecedent :
            analysis.rules[k].antecedent[i] = Item("arg", arg)}

\* C15: no recommendation names an argument that is in the profile's
\* current_arguments, whether the candidate came from the counterfactual table
\* or from an association rule.
C15_NoCurrentArgument ==
    Recommended =>
        \A k \in DOMAIN analysis.recommendations :
            analysis.recommendations[k].add \notin UserArgs

\* An argument of the profile was a candidate of both sources, and another
\* argument was recommended.
C15_Witness ==
    /\ Recommended
    /\ analysis.recommendations # <<>>
    /\ \E arg \in UserArgs :
          /\ \E k \in Candidates : analysis.counterfactuals[k].arg = arg
          /\ Naming(arg) # {}

LabelRank(label) ==
    CASE label = "very_low" -> 1
      [] label = "low" -> 2
      [] label = "medium" -> 3
      [] label = "high" -> 4
      [] label = "very_high" -> 5

\* The entry of arg as the first source to surface it builds it.
FirstSeen(arg) ==
    IF \E k \in Candidates : analysis.counterfactuals[k].arg = arg
    THEN LET k == CHOOSE i \in Candidates : analysis.counterfactuals[i].arg = arg
             stats == analysis.counterfactuals[k]
         IN  [add |-> arg,
              impact |-> <<"+", Percent(stats.impact), "% success rate">>,
              with_success_rate |-> stats.with_success_rate,
              sample_size |-> stats.with_count,
              confidence |-> confidence_label(stats.with_count),
              source |-> "counterfactual"]
    ELSE LET k == CHOOSE i \in Naming(arg) : \A j \in Naming(arg) : i <= j
             rule == analysis.rules[k]
         IN  [add |-> arg,
              impact |-> <<"appears in ", Percent(rule.confidence),
                           "%-confidence winning rule">>,
              with_success_rate |-> rule.confidence,
              sample_size |-> rule.sample_size,
              confidence |-> confidence_label(rule.sample_size),
              source |-> "association_rule"]

\* C16: the recommendation list holds at most one entry per argument; an
\* entry is the one its first source built, but for its confidence label,
\* which differs only by being "medium" instead of "very_low" or "low" when a
\* rule of confidence above 0.7 names the argument; a label is never lowered.
C16_OneEntryLabelOnlyRaised ==
    Recommended =>
        LET recs == analysis.recommendations
        IN  /\ \A j, k \in DOMAIN recs : recs[j].add = recs[k].add => j = k
            /\ \A k \in DOMAIN recs :
                  LET r == recs[k]
                      first == FirstSeen(r.add)
                  IN  /\ [r EXCEPT !.confidence = first.confidence] = first
                      /\ LabelRank(r.confidence) >= LabelRank(first.confidence)
                      /\ r.confidence # first.confidence =>
                            /\ r.confidence = "medium"
                            /\ first.confidence \in {"very_low", "low"}
                            /\ \E i \in Naming(r.add) :
                                  RLt(<<7, 10>>, analysis.rules[i].confidence)

\* A counterfactual entry was confirmed by a rule and its label raised, and
\* another entry named by a rule of confidence above 0.7 kept its higher label.
C16_Witness ==
    /\ Recommended
    /\ \E k \in DOMAIN analysis.recommendations :
          LET r == analysis.recommendations[k]
          IN  /\ r.source = "counterfactual"
              /\ r.confidence = "medium"
              /\ FirstSeen(r.add).confidence \in {"very_low", "low"}
    /\ \E k \in DOMAIN analysis.recommendations :
          LET r == analysis.recommendations[k]
          IN  /\ r.confidence = "high"
              /\ Cardinality({i \in Naming(r.add) :
                                 RLt(<<7, 10>>, analysis.rules[i].confidence)}) >= 2

\* The internal impact score of a returned entry.
ImpactScore(r) ==
    IF r.source = "counterfactual"
    THEN analysis.counterfactuals[
             CHOOSE k \in DOMAIN analysis.counterfactuals :
                 analysis.counterfactuals[k].arg = r.add].impact
    ELSE RMul(analysis.rules[CHOOSE i \in Naming(r.add) :
                                 \A j \in Naming(r.add) : i <= j].confidence,
              <<1, 2>>)

\* C17: the returned list is in non-increasing order of the internal impact
\* score (the counterfactual impact of a counterfactual entry, half the rule
\* confidence of a rule entry) and no returned entry has the key impact_raw.
C17_SortedByImpact ==
    Recommended =>
        LET recs == analysis.recommendations
        IN  /\ \A j, k \in DOMAIN recs :
                  j < k => RLe(ImpactScore(recs[k]), ImpactScore(recs[j]))
            /\ \A k \in DOMAIN recs : "impact_raw" \notin DOMAIN recs[k]

\* A rule entry is listed before a counterfactual entry of lower score.
C17_Witness ==
    /\ Recommended
    /\ \E j, k \in DOMAIN analysis.recommendations :
          /\ j < k
          /\ analysis.recommendations[j].source = "association_rule"
          /\ analysis.recommendations[k].source = "counterfactual"
          /\ RLt(ImpactScore(analysis.recommendations[k]),
                 ImpactScore(analysis.recommendations[j]))

\* The impact counterfactual_analysis reports for arg on the analysed cases.
ReportedImpact(arg) == Round(RSub(Share(Using(arg)), Share(NotUsing(arg))), 3)

\* 0.3 * impact summed over the arguments of the profile that some analysed
\* case uses and whose reported impact is positive.
PositiveImpactSum ==
    RSum(List([k \in DOMAIN ArgumentOrder |->
                 IF /\ ArgumentOrder[k] \in UserArgs
                    /\ Using(ArgumentOrder[k]) # {}
                    /\ RLt(RZero, ReportedImpact(ArgumentOrder[k]))
                 THEN RMul(<<3, 10>>, ReportedImpact(ArgumentOrder[k]))
                 ELSE RZero]))

Estimated == apc = "probability" /\ results # <<>>

\* C21, as stated: the reported argument_boost is the sum itself.
C21_BoostIsSum ==
    Estimated =>
        /\ analysis.argument_boost = PositiveImpactSum
        /\ RLe(RZero, analysis.argument_boost)
        /\ InUnit(analysis.base_probability) =>
              RLe(analysis.base_probability, analysis.probability)

\* C21: the reported argument_boost is, rounded to 3 decimals, the sum of
\* 0.3 * impact over exactly those arguments of the profile's
\* current_arguments whose reported counterfactual impact over the similar
\* cases is positive; it is never negative, and probability >=
\* base_probability whenever base_probability is in [0,1].
C21_BoostIsRoundedSum ==
    Estimated =>
        /\ analysis.argument_boost = Round(PositiveImpactSum, 3)
        /\ RLe(RZero, analysis.argument_boost)
        /\ InUnit(analysis.base_probability) =>
              RLe(analysis.base_probability, analysis.probability)

\* The profile has an argument of positive impact and one of negative impact,
\* and the estimate is above the base probability.
C21_Witness ==
    /\ Estimated
    /\ \E a, b \in UserArgs :
          /\ Using(a) # {} /\ RLt(RZero, ReportedImpact(a))
          /\ Using(b) # {} /\ RLt(ReportedImpact(b), RZero)
    /\ InUnit(analysis.base_probability)
    /\ RLt(analysis.base_probability, analysis.probability)

\* C22: the table counterfactual_analysis returns is computed from the subset
\* passed to it alone: its arguments are those of the subset's cases, its
\* counts are counts of the subset's cases, and the empty subset gives the
\* empty table.
C22_SubsetOnly ==
    apc = "counterfactuals" =>
        /\ {analysis[k].arg : k \in DOMAIN analysis}
              = UNION {Range(results[i].arguments_made) : i \in DOMAIN results}
        /\ \A k \in DOMAIN analysis :
              /\ analysis[k].with_count =
                    Cardinality({i \in DOMAIN results :
                        analysis[k].arg \in Range(results[i].arguments_made)})
              /\ analysis[k].with_count + analysis[k].without_count = Len(results)
        /\ results = <<>> => Len(analysis) = 0

\* The similar cases of an outcome whose argument set satisfies P.
CasesWith(outcome, P(_)) ==
    {i \in DOMAIN results :
        results[i].outcome = outcome /\ P(Range(results[i].arguments_made))}

\* The support of an argument set: the favourable cases with exactly that set.
Support(args) == Cardinality(CasesWith("SUSTAINED", LAMBDA s : s = args))

\* C23: each winning pattern has sustained_count = the favourable similar
\* cases whose argument set is exactly the combination, sample_size =
\* sustained_count + the DISMISSED similar cases whose arguments contain the
\* combination, and success_rate = sustained_count / sample_size; at most 5
\* patterns are returned, no other combination has more support than a
\* returned one, and no pattern has an empty combination.
C23_WinningPatterns ==
    apc = "winning" =>
        /\ Len(analysis) <= 5
        /\ \A k \in DOMAIN analysis :
              LET pt == analysis[k]
                  combo == Range(pt.arguments)
              IN  /\ combo # {}
                  /\ pt.sustained_count = Support(combo)
                  /\ pt.sample_size = pt.sustained_count +
                        Cardinality(CasesWith("DISMISSED", LAMBDA s : combo \subseteq s))
                  /\ pt.success_rate = Rat(pt.sustained_count, pt.sample_size)
                  /\ \A i \in DOMAIN results :
                        LET other == Range(results[i].arguments_made)
                        IN  (/\ results[i].outcome = "SUSTAINED"
                             /\ other # {}
                             /\ \A j \in DOMAIN analysis :
                                   Range(analysis[j].arguments) # other)
                                => Support(other) <= pt.sustained_count

\* C26: for the same non-empty case subset the argument-effectiveness table
\* and the counterfactual table have the same arguments, and for each of them
\* analyze_argument_patterns' total equals counterfactual_analysis' with_count
\* and its success_rate equals with_success_rate.
C26_TablesAgree ==
    (apc = "patterns" /\ results # <<>>) =>
        LET counterfactuals == counterfactual_analysis(Val(analyzer), results)
        IN  /\ {analysis[k].arg : k \in DOMAIN analysis}
                  = {counterfactuals[k].arg : k \in DOMAIN counterfactuals}
            /\ \A j \in DOMAIN analysis, k \in DOMAIN counterfactuals :
                  analysis[j].arg = counterfactuals[k].arg =>
                      /\ analysis[j].total = counterfactuals[k].with_count
                      /\ analysis[j].success_rate =
                            counterfactuals[k].with_success_rate

\* C25: the label of a sample size n is very_low for n < 3, low for
\* 3 <= n < 5, medium for 5 <= n < 10, high for 10 <= n < 20 and very_high
\* for n >= 20, and _confidence_label and _conf_label give the same label.
C25_Labels ==
    apc = "label" =>
        /\ analysis.confidence_label =
              CASE analysis.n \in 0..2 -> "very_low"
                [] analysis.n \in 3..4 -> "low"
                [] analysis.n \in 5..9 -> "medium"
                [] analysis.n \in 10..19 -> "high"
                [] OTHER -> "very_high"
        /\ analysis.conf_label = analysis.confidence_label

\* The label at the last threshold.
C25_Witness ==
    /\ apc = "label"
    /\ analysis.n = 20
    /\ analysis.conf_label = "very_high"

(***************************************************************************)
(* SpecRules: _fallback_rules on every corpus of at most MaxCases cases    *)
(* loaded from RuleDocs, for the min_confidence values of MinConfidences.  *)
(***************************************************************************)
\* A case that lists an argument twice.
DocR == [_id |-> "idr", embedding |-> <<3, 4>>, outcome |-> "SUSTAINED",
         company_type |-> "staffing",
         arguments_made |-> <<"expert_letter", "expert_letter">>]

RuleDocs == {DocA, DocB, DocC, DocD, DocZ, DocR}

\* min_confidence: recommend_strategy's 0.4, the default 0.5, and 1.
MinConfidences == {<<2, 5>>, <<1, 2>>, ROne}

RInit ==
    /\ GIdle
    /\ searcher = None
    /\ user_profile = NoProfile
    /\ top_k = 0
    /\ sortTies = <<>>
    /\ spc = "idle"
    /\ results = <<>>
    /\ \E raw_cases \in SeqsUpTo(RuleDocs, MaxCases) \ {<<>>} :
          analyzer = Some(NewAnalyzer(EmptyGraph, LoadCases(raw_cases)))
    /\ visualizer = None
    /\ loaded = FALSE
    /\ cacheFile = None
    /\ lpc = "idle"
    /\ lframe = <<>>
    /\ qpc = "idle"
    /\ qframe = <<>>
    /\ origin = <<>>
    /\ pre = None
    /\ everLoaded = FALSE
    /\ loadNo = 0
    /\ AIdle
    /\ WIdle

\* One call _fallback_rules(min_confidence)
RFallback(min_confidence) ==
    /\ apc = "idle"
    /\ analysis' = [min_confidence |-> min_confidence,
                    rules |-> fallback_rules(Val(analyzer), min_confidence)]
    /\ apc' = "rules"
    /\ UNCHANGED <<wvars, gvars, svars, evars>>

\* The caller drops the rules.
RReturn ==
    /\ apc = "rules"
    /\ analysis' = <<>>
    /\ apc' = "idle"
    /\ UNCHANGED <<wvars, gvars, svars, evars>>

RNext ==
    \/ \E min_confidence \in MinConfidences : RFallback(min_confidence)
    \/ RReturn

SpecRules == RInit /\ [][RNext]_vars

\* The features of case i of the analyzer, as a set.
FeatureSet(i) == Range(Features(Val(analyzer).cases[i]))

\* The cases that have every feature of the combination.
Having(combo) == {i \in DOMAIN Val(analyzer).cases : combo \subseteq FeatureSet(i)}

Won(I) == {i \in I : Val(analyzer).cases[i].outcome = "SUSTAINED"}

\* The singletons and pairs of features that qualify as rules.
Qualifying ==
    LET all == UNION {FeatureSet(i) : i \in DOMAIN Val(analyzer).cases}
    IN  {combo \in {{f, g} : f, g \in all} :
            /\ Cardinality(Having(combo)) >= 2
            /\ RLe(analysis.min_confidence,
                   Rat(Cardinality(Won(Having(combo))), Cardinality(Having(combo))))}

\* C24: the fallback miner returns one rule for every singleton or pair of
\* features that at least 2 cases have and whose favourable rate is at least
\* min_confidence, and no other rule; each rule has confidence = favourable
\* cases with the combination / cases with it, sample_size = cases with it,
\* lift = 0.0, and the rules are in non-increasing order of confidence.
C24_FallbackRules ==
    apc = "rules" =>
        LET rules == analysis.rules
        IN  /\ {Range(rules[k].antecedent) : k \in DOMAIN rules} = Qualifying
            /\ \A j, k \in DOMAIN rules :
                  Range(rules[j].antecedent) = Range(rules[k].antecedent) => j = k
            /\ \A k \in DOMAIN rules :
                  LET with == Having(Range(rules[k].antecedent))
                  IN  /\ rules[k].sample_size = Cardinality(with)
                      /\ rules[k].confidence =
                            Rat(Cardinality(Won(with)), Cardinality(with))
                      /\ rules[k].lift = RZero
            /\ \A j, k \in DOMAIN rules :
                  j < k => RLe(rules[k].confidence, rules[j].confidence)

\* ---------------------------------------------------------------------------
\* RecommendationEngine (strategy_engine.py): one caller loading, one querying.
\* The class takes no lock, so each call advances one statement at a time and
\* the two calls interleave freely.
\* ---------------------------------------------------------------------------

\* Corpora a load finds in the collection.
EngineCollections == {<<>>, <<DocA, DocC>>}

\* similarity_threshold's default.
DefaultThreshold == <<75, 100>>

\* cache_path arguments: none, a writable file, a file that cannot be opened.
CachePaths == {"", "h1b_graph.pkl", "/missing/h1b_graph.pkl"}
Writable(path) == path = "h1b_graph.pkl"

\* What save_graph pickles.
Snapshot(b) == [graph |-> b.G, cases |-> b.cases, embeddings |-> b.embeddings]

\* A dict with only the keys in K.
Restrict(d, K) == [k \in (DOMAIN d) \cap K |-> d[k]]

\* Snapshot files found on disk before the engine ever wrote one: none, or a
\* pickle of a dict that lacks some of the keys load_graph reads.
FoundSnapshot ==
    LET cs == LoadCases(<<DocB>>)
        em == Some(LoadEmbeddings(<<DocB>>))
    IN  [graph |-> build_graph(cs, em, DefaultThreshold), cases |-> cs,
         embeddings |-> em]

CacheFiles ==
    {None} \cup {Some(Restrict(FoundSnapshot, K)) :
                    K \in {{"graph"}, {"graph", "cases"}}}

\* The engine's attributes.
EngineState ==
    [builder |-> builder, searcher |-> searcher, analyzer |-> analyzer,
     visualizer |-> visualizer, loaded |-> loaded]

LoadErrors == {"ValueError", "OSError", "FileNotFoundError", "KeyError"}
QueryErrors == {"RuntimeError", "AttributeError", "ZeroDivisionError",
                "RuleMiningError"}

NewOrigin ==
    [G |-> 0, cases |-> 0, searcher |-> 0, analyzer |-> 0, visualizer |-> 0,
     raised |-> FALSE]

NewLoadFrame == [kind |-> "", cache_path |-> "", raw_cases |-> <<>>, data |-> None]
NewQueryFrame ==
    [kind |-> "", nodes |-> <<>>, edges |-> <<>>, seen |-> {}, calls |-> {},
     raised |-> None]

qvars == <<qpc, qframe, user_profile, top_k, results>>
lvars == <<mongo, threshold, builder, searcher, analyzer, visualizer, loaded,
           cacheFile, lpc, lframe, origin, pre, everLoaded, loadNo>>

\* RecommendationEngine.__init__.
Init ==
    /\ mongo = <<>>
    /\ threshold = DefaultThreshold
    /\ builder = NewBuilder
    /\ gpc = "new"
    /\ searcher = None
    /\ analyzer = None
    /\ visualizer = None
    /\ loaded = FALSE
    /\ cacheFile \in CacheFiles
    /\ sortTies = <<>>
    /\ user_profile = NoProfile
    /\ top_k = 0
    /\ results = <<>>
    /\ spc = "ready"
    /\ lpc = "idle"
    /\ lframe = NewLoadFrame
    /\ qpc = "idle"
    /\ qframe = NewQueryFrame
    /\ origin = NewOrigin
    /\ pre = None
    /\ everLoaded = FALSE
    /\ loadNo = 0
    /\ AIdle
    /\ WIdle

LoadStep(next) ==
    /\ lpc' = next
    /\ UNCHANGED <<wvars, gpc, sortTies, spc, qvars, avars>>

LoadRaise(error) ==
    /\ LoadStep(error)
    /\ origin' = [origin EXCEPT !.raised = TRUE]

\* load_from_mongodb is called.
LCallMongo(cache_path) ==
    /\ lpc = "idle"
    /\ loadNo < MaxLoads
    /\ lframe' = [NewLoadFrame EXCEPT !.kind = "mongodb", !.cache_path = cache_path]
    /\ pre' = Some(EngineState)
    /\ loadNo' = loadNo + 1
    /\ LoadStep("find")
    /\ UNCHANGED <<mongo, threshold, builder, searcher, analyzer, visualizer, loaded,
                   cacheFile, origin, everLoaded>>

\* GraphBuilder.load_from_mongodb: the query, which finds raw_cases in the
\* collection, and the empty-corpus check.
LFind(raw_cases) ==
    /\ lpc = "find"
    /\ IF raw_cases = <<>>
       THEN /\ LoadRaise("ValueError")
            /\ UNCHANGED lframe
       ELSE /\ LoadStep("embeddings")
            /\ lframe' = [lframe EXCEPT !.raw_cases = raw_cases]
            /\ UNCHANGED origin
    /\ UNCHANGED <<mongo, threshold, builder, searcher, analyzer, visualizer,
                   loaded, cacheFile, pre, everLoaded, loadNo>>

\* self.embeddings = raw_emb / norms
LSetEmbeddings ==
    /\ lpc = "embeddings"
    /\ builder' = [builder EXCEPT !.embeddings = Some(LoadEmbeddings(lframe.raw_cases))]
    /\ LoadStep("cases")
    /\ UNCHANGED <<mongo, threshold, searcher, analyzer, visualizer, loaded,
                   cacheFile, lframe, origin, pre, everLoaded, loadNo>>

\* self.cases = []
LNewCases ==
    /\ lpc = "cases"
    /\ builder' = [builder EXCEPT !.cases = <<>>]
    /\ origin' = [origin EXCEPT !.cases = loadNo]
    /\ LoadStep("append")
    /\ UNCHANGED <<mongo, threshold, searcher, analyzer, visualizer, loaded,
                   cacheFile, lframe, pre, everLoaded, loadNo>>

\* self.cases.append({...}), once per document; then the loop ends.
LAppend ==
    /\ lpc = "append"
    /\ LET i == Len(builder.cases)
       IN  IF i < Len(lframe.raw_cases)
           THEN /\ builder' = [builder EXCEPT
                      !.cases = Append(@, CaseRecord(i, lframe.raw_cases[i + 1]))]
                /\ LoadStep("append")
           ELSE /\ UNCHANGED builder
                /\ LoadStep("build_graph")
    /\ UNCHANGED <<mongo, threshold, searcher, analyzer, visualizer, loaded,
                   cacheFile, lframe, origin, pre, everLoaded, loadNo>>

\* GraphBuilder.build_graph: the graph is built aside and assigned at the end.
LBuildGraph ==
    /\ lpc = "build_graph"
    /\ builder' = [builder EXCEPT
           !.G = build_graph(builder.cases, builder.embeddings, threshold)]
    /\ origin' = [origin EXCEPT !.G = loadNo]
    /\ LoadStep(IF lframe.cache_path # "" THEN "save_graph" ELSE "searcher")
    /\ UNCHANGED <<mongo, threshold, searcher, analyzer, visualizer, loaded,
                   cacheFile, lframe, pre, everLoaded, loadNo>>

\* GraphBuilder.save_graph: open the file and pickle the three attributes.
LSaveGraph ==
    /\ lpc = "save_graph"
    /\ IF Writable(lframe.cache_path)
       THEN /\ cacheFile' = Some(Snapshot(builder))
            /\ LoadStep("searcher")
            /\ UNCHANGED origin
       ELSE /\ UNCHANGED cacheFile
            /\ LoadRaise("OSError")
    /\ UNCHANGED <<mongo, threshold, builder, searcher, analyzer, visualizer,
                   loaded, lframe, pre, everLoaded, loadNo>>

\* load_from_cache is called.
LCallCache ==
    /\ lpc = "idle"
    /\ loadNo < MaxLoads
    /\ lframe' = [NewLoadFrame EXCEPT !.kind = "cache"]
    /\ pre' = Some(EngineState)
    /\ loadNo' = loadNo + 1
    /\ LoadStep("open")
    /\ UNCHANGED <<mongo, threshold, builder, searcher, analyzer, visualizer,
                   loaded, cacheFile, origin, everLoaded>>

\* GraphBuilder.load_graph: open the file and unpickle it.
LOpen ==
    /\ lpc = "open"
    /\ IF cacheFile = None
       THEN /\ LoadRaise("FileNotFoundError")
            /\ UNCHANGED lframe
       ELSE /\ LoadStep("data_graph")
            /\ lframe' = [lframe EXCEPT !.data = cacheFile]
            /\ UNCHANGED origin
    /\ UNCHANGED <<mongo, threshold, builder, searcher, analyzer, visualizer,
                   loaded, cacheFile, pre, everLoaded, loadNo>>

\* self.<attr> = data[<key>]
LSetFromData(at, key, attr, next) ==
    /\ lpc = at
    /\ LET data == Val(lframe.data)
       IN  IF key \in DOMAIN data
           THEN /\ builder' = [builder EXCEPT ![attr] = data[key]]
                /\ origin' = IF attr \in DOMAIN origin
                             THEN [origin EXCEPT ![attr] = loadNo]
                             ELSE origin
                /\ LoadStep(next)
           ELSE /\ UNCHANGED builder
                /\ LoadRaise("KeyError")
    /\ UNCHANGED <<mongo, threshold, searcher, analyzer, visualizer, loaded,
                   cacheFile, lframe, pre, everLoaded, loadNo>>

LSetGraph == LSetFromData("data_graph", "graph", "G", "data_cases")
LSetCases == LSetFromData("data_cases", "cases", "cases", "data_embeddings")
LSetEmbeddingsFromData ==
    LSetFromData("data_embeddings", "embeddings", "embeddings", "searcher")

\* _init_components, one assignment at a time.
LInitSearcher ==
    /\ lpc = "searcher"
    /\ searcher' = Some([cases |-> builder.cases,
                         embeddings |-> Val(builder.embeddings)])
    /\ origin' = [origin EXCEPT !.searcher = origin.cases]
    /\ LoadStep("analyzer")
    /\ UNCHANGED <<mongo, threshold, builder, analyzer, visualizer, loaded,
                   cacheFile, lframe, pre, everLoaded, loadNo>>

LInitAnalyzer ==
    /\ lpc = "analyzer"
    /\ analyzer' = Some(NewAnalyzer(builder.G, builder.cases))
    /\ origin' = [origin EXCEPT !.analyzer = origin.cases]
    /\ LoadStep("visualizer")
    /\ UNCHANGED <<mongo, threshold, builder, searcher, visualizer, loaded,
                   cacheFile, lframe, pre, everLoaded, loadNo>>

LInitVisualizer ==
    /\ lpc = "visualizer"
    /\ visualizer' = Some([G |-> builder.G, cases |-> builder.cases])
    /\ origin' = [origin EXCEPT !.visualizer = origin.G]
    /\ LoadStep("loaded")
    /\ UNCHANGED <<mongo, threshold, builder, searcher, analyzer, loaded,
                   cacheFile, lframe, pre, everLoaded, loadNo>>

LSetLoaded ==
    /\ lpc = "loaded"
    /\ loaded' = TRUE
    /\ everLoaded' = TRUE
    /\ LoadStep("returned")
    /\ UNCHANGED <<mongo, threshold, builder, searcher, analyzer, visualizer,
                   cacheFile, lframe, origin, pre, loadNo>>

\* The load call is over; its caller may call again.
LDone ==
    /\ lpc \in LoadErrors \cup {"returned"}
    /\ lframe' = NewLoadFrame
    /\ pre' = None
    /\ LoadStep("idle")
    /\ UNCHANGED <<mongo, threshold, builder, searcher, analyzer, visualizer,
                   loaded, cacheFile, origin, everLoaded, loadNo>>

QueryStep(next) ==
    /\ qpc' = next
    /\ UNCHANGED <<wvars, gpc, sortTies, spc, lvars, avars>>

\* A variant of similarity_search.py 58 that scores the corpus records
\* themselves instead of copies.
SearchEffect_InPlace(cases, found) ==
    List([k \in DOMAIN cases |->
             IF \E a \in DOMAIN found : found[a].index = cases[k].index
             THEN found[CHOOSE a \in DOMAIN found : found[a].index = cases[k].index]
             ELSE cases[k]])

\* similarity_search.py 58: case = dict(self.cases[idx]); the scores are set
\* on the copy, so the corpus is after the search what it was before.
SearchEffect(cases, found) == cases

\* The statement that calls find_similar_cases: the searcher is left as the
\* search leaves it.
SearchStep(next, found) ==
    /\ qpc' = next
    /\ searcher' = Some([Val(searcher) EXCEPT !.cases = SearchEffect(@, found)])
    /\ UNCHANGED <<wvars, gpc, sortTies, spc, avars, mongo, threshold, builder,
                   analyzer, visualizer, loaded, cacheFile, lpc, lframe,
                   origin, pre, everLoaded, loadNo>>

\* A variant of the test at strategy_engine.py 378 that searches whenever a
\* searcher exists.
WantsHighlight_Always(profile, s) == s # None

\* strategy_engine.py 378: if user_profile and self.searcher
WantsHighlight(profile, s) == profile # NoProfile /\ s # None

\* The analyzer's four computations recommend_strategy calls.
AnalyzerStages ==
    {"analyze_argument_patterns", "find_association_rules",
     "counterfactual_analysis", "calculate_success_probability"}

\* strategy_engine.py 69-70, 339-340: the guard both queries start with.
NotLoaded_Ignored(isLoaded) == FALSE

NotLoaded(isLoaded) == ~isLoaded

\* recommend_strategy or get_graph_data is called and passes or fails its guard.
QCall(kind, profile) ==
    /\ qpc = "idle"
    /\ user_profile' = profile
    /\ top_k' = DefaultTopK
    /\ results' = <<>>
    /\ qframe' = [NewQueryFrame EXCEPT !.kind = kind]
    /\ QueryStep(IF NotLoaded(loaded) THEN "RuntimeError"
                 ELSE IF kind = "get_graph_data" THEN "nodes" ELSE "similar")

\* get_graph_data 342-355: one node per case of the builder.
GraphNode(case) ==
    [id |-> case.index, outcome |-> case.outcome, job_title |-> case.job_title,
     company_type |-> case.company_type, wage_level |-> case.wage_level,
     case_number |-> case.case_number, arguments_made |-> case.arguments_made]

QNodes ==
    /\ qpc = "nodes"
    /\ qframe' = [qframe EXCEPT
           !.nodes = List([k \in DOMAIN builder.cases |-> GraphNode(builder.cases[k])]),
           !.seen = @ \cup {origin.cases}]
    /\ QueryStep("edges")
    /\ UNCHANGED <<user_profile, top_k, results>>

\* get_graph_data 357-375: the SIMILAR_TO pairs between case nodes, each once.
GraphEdges(G) ==
    LET idx == 0..Cardinality(DOMAIN G.nodes)
        Between(i, j) == {<<CaseId(i), CaseId(j)>>, <<CaseId(j), CaseId(i)>>}
                            \cap SimilarEdges(G)
    IN  {[source |-> q[1], target |-> q[2],
          weight |-> Round(G.edges[Only(Between(q[1], q[2]))].weight, 3)] :
            q \in {p \in idx \X idx : p[1] <= p[2] /\ Between(p[1], p[2]) # {}}}

QEdges ==
    /\ qpc = "edges"
    /\ qframe' = [qframe EXCEPT !.edges = GraphEdges(builder.G),
                                !.seen = @ \cup {origin.G}]
    /\ QueryStep("highlight")
    /\ UNCHANGED <<user_profile, top_k, results>>

\* get_graph_data 377-407: similar cases when a profile is given.
QHighlight ==
    /\ qpc = "highlight"
    /\ IF WantsHighlight(user_profile, searcher)
       THEN /\ \E ties \in TieOrders(Len(Val(searcher).cases)) :
                  results' = find_similar_cases(Val(searcher), user_profile,
                                                top_k, ties)
            /\ qframe' = [qframe EXCEPT !.seen = @ \cup {origin.searcher},
                                        !.calls = @ \cup {"find_similar_cases"}]
            /\ SearchStep("returned", results')
       ELSE /\ UNCHANGED <<results, qframe>>
            /\ QueryStep("returned")
    /\ UNCHANGED <<user_profile, top_k>>

\* recommend_strategy 73: self.searcher.find_similar_cases(...)
RSimilar ==
    /\ qpc = "similar"
    /\ IF searcher = None
       THEN /\ QueryStep("AttributeError")
            /\ UNCHANGED <<results, qframe>>
       ELSE /\ \E ties \in TieOrders(Len(Val(searcher).cases)) :
                  results' = find_similar_cases(Val(searcher), user_profile,
                                                top_k, ties)
            /\ qframe' = [qframe EXCEPT !.seen = @ \cup {origin.searcher},
                                        !.calls = @ \cup {"find_similar_cases"}]
            /\ SearchStep("patterns", results')
    /\ UNCHANGED <<user_profile, top_k>>

\* recommend_strategy 76: self.analyzer.analyze_argument_patterns(similar)
RPatterns ==
    /\ qpc = "patterns"
    /\ qframe' = [qframe EXCEPT !.seen = @ \cup {origin.analyzer},
                                !.calls = @ \cup {"analyze_argument_patterns"}]
    /\ QueryStep("min_support")
    /\ UNCHANGED <<user_profile, top_k, results>>

\* recommend_strategy 81-82: the share of SUSTAINED cases of the builder.
RMinSupport ==
    /\ qpc = "min_support"
    /\ IF builder.cases = <<>>
       THEN /\ QueryStep("ZeroDivisionError")
            /\ UNCHANGED qframe
       ELSE /\ qframe' = [qframe EXCEPT !.seen = @ \cup {origin.cases}]
            /\ QueryStep("rules")
    /\ UNCHANGED <<user_profile, top_k, results>>

\* recommend_strategy 83-85: self.analyzer.find_association_rules(...).  The
\* mining runs in a library (pattern_analyzer.py 90-106); it returns or it
\* raises, and neither find_association_rules nor recommend_strategy has a
\* handler.
RRules ==
    /\ qpc = "rules"
    /\ \E raises \in BOOLEAN :
          IF raises
          THEN /\ qframe' = [qframe EXCEPT
                      !.calls = @ \cup {"find_association_rules"},
                      !.raised = Some("find_association_rules")]
               /\ QueryStep("RuleMiningError")
          ELSE /\ qframe' = [qframe EXCEPT
                      !.seen = @ \cup {origin.analyzer},
                      !.calls = @ \cup {"find_association_rules"}]
               /\ QueryStep("mining")
    /\ UNCHANGED <<user_profile, top_k, results>>

\* recommend_strategy 88-91: counterfactual_analysis(similar) and
\* calculate_success_probability(user_profile, similar).
RMining ==
    /\ qpc = "mining"
    /\ qframe' = [qframe EXCEPT
           !.seen = @ \cup {origin.analyzer},
           !.calls = @ \cup {"counterfactual_analysis",
                             "calculate_success_probability"}]
    /\ QueryStep("visualization")
    /\ UNCHANGED <<user_profile, top_k, results>>

\* recommend_strategy 115-117: the visualizer draws from its graph.
RVisualization ==
    /\ qpc = "visualization"
    /\ qframe' = [qframe EXCEPT !.seen = @ \cup {origin.visualizer}]
    /\ QueryStep("returned")
    /\ UNCHANGED <<user_profile, top_k, results>>

\* The query is over; its caller may call again.
QDone ==
    /\ qpc \in QueryErrors \cup {"returned"}
    /\ qframe' = NewQueryFrame
    /\ user_profile' = NoProfile
    /\ top_k' = 0
    /\ results' = <<>>
    /\ QueryStep("idle")

EngineProfiles == {NoProfile, CompanyOnly}

Next ==
    \/ \E cache_path \in CachePaths : LCallMongo(cache_path)
    \/ \E raw_cases \in EngineCollections : LFind(raw_cases)
    \/ LSetEmbeddings
    \/ LNewCases
    \/ LAppend
    \/ LBuildGraph
    \/ LSaveGraph
    \/ LCallCache
    \/ LOpen
    \/ LSetGraph
    \/ LSetCases
    \/ LSetEmbeddingsFromData
    \/ LInitSearcher
    \/ LInitAnalyzer
    \/ LInitVisualizer
    \/ LSetLoaded
    \/ LDone
    \/ \E kind \in {"recommend_strategy", "get_graph_data"},
          profile \in EngineProfiles : QCall(kind, profile)
    \/ QNodes
    \/ QEdges
    \/ QHighlight
    \/ RSimilar
    \/ RPatterns
    \/ RMinSupport
    \/ RRules
    \/ RMining
    \/ RVisualization
    \/ QDone

Spec == Init /\ [][Next]_vars

(***************************************************************************)
(* Properties of the engine's loads and queries.                           *)
(***************************************************************************)

\* C1: a call of recommend_strategy or get_graph_data on an engine on which
\* no load has completed successfully raises RuntimeError, and the builder's
\* cases, embeddings and graph, the searcher, analyzer and visualizer, and
\* the loaded flag are what they were before the call.
C1_QueryBeforeLoadRaises ==
    [][(qpc = "idle" /\ qpc' # "idle" /\ ~everLoaded)
          => /\ qpc' = "RuntimeError"
             /\ UNCHANGED <<builder, searcher, analyzer, visualizer, loaded>>]_vars

\* A query raised on an engine that never loaded although a load had already
\* put cases into its builder.
C1_Witness ==
    /\ qpc = "RuntimeError"
    /\ ~everLoaded
    /\ builder.cases # <<>>

\* C2: when load_from_cache or load_from_mongodb raises, the builder's graph,
\* cases and embeddings and the engine's searcher, analyzer, visualizer and
\* loaded flag are exactly what they were when the call began.
C2_FailedLoadKeepsState == lpc \in LoadErrors => pre = Some(EngineState)

\* C3: a query that returns, no load having failed, has read its cases, its
\* graph, its searcher, its analyzer and its visualizer from one and the same
\* load, however a reload was interleaved with it.
C3_ConsistentSnapshot ==
    (qpc = "returned" /\ ~origin.raised) => Cardinality(qframe.seen) <= 1

\* C18: the four analyzer computations of recommend_strategy are independent
\* best-effort stages: when one of them raises, the call does not end with
\* that exception; it returns, and the other three stages have run.
C18_StageFailureContained ==
    \A stage \in AnalyzerStages :
        (qframe.raised = Some(stage) /\ qpc \in QueryErrors \cup {"returned"}) =>
            /\ qpc = "returned"
            /\ AnalyzerStages \ {stage} \subseteq qframe.calls

\* The statements of recommend_strategy and get_graph_data are the steps that
\* move qpc.
QueryMoves == qpc' # qpc
Searches == qpc \in {"similar", "highlight"} /\ results' # results
ScoreKeys == {"similarity_score", "metadata_score", "embedding_score"}

\* C19: no statement of recommend_strategy or get_graph_data changes the
\* builder (case records, embeddings, graph), the searcher, the analyzer or
\* the visualizer; no case record of the builder or the searcher has a score
\* key; and the cases a search returns are those a search on the engine as
\* the call left it returns.
C19_QueriesReadOnly ==
    [][QueryMoves =>
          /\ UNCHANGED <<builder, searcher, analyzer, visualizer>>
          /\ \A k \in DOMAIN builder'.cases :
                DOMAIN builder'.cases[k] \cap ScoreKeys = {}
          /\ Searches =>
                /\ \A k \in DOMAIN Val(searcher').cases :
                      DOMAIN Val(searcher').cases[k] \cap ScoreKeys = {}
                /\ \E ties \in TieOrders(Len(Val(searcher').cases)) :
                      results' = find_similar_cases(Val(searcher'), user_profile,
                                                    top_k, ties)]_vars

\* recommend_strategy returned scored cases and the builder's records are
\* without score keys.
C19_Witness ==
    /\ qpc = "returned"
    /\ qframe.kind = "recommend_strategy"
    /\ results # <<>>
    /\ \A a \in DOMAIN results : ScoreKeys \subseteq DOMAIN results[a]
    /\ builder.cases # <<>>
    /\ \A k \in DOMAIN builder.cases : DOMAIN builder.cases[k] \cap ScoreKeys = {}

\* C20: get_graph_data calls none of analyze_argument_patterns,
\* find_association_rules, counterfactual_analysis,
\* calculate_success_probability and build_graph, and with no profile it does
\* not call find_similar_cases either.
C20_GraphDataMinesNothing ==
    qframe.kind = "get_graph_data" =>
        /\ qframe.calls \cap (AnalyzerStages \cup {"build_graph"}) = {}
        /\ user_profile = NoProfile => qframe.calls = {}

\* get_graph_data returned the nodes of a loaded engine, once without a
\* profile and no call made.
C20_Witness ==
    /\ qpc = "returned"
    /\ qframe.kind = "get_graph_data"
    /\ user_profile = NoProfile
    /\ searcher # None
    /\ qframe.nodes # <<>>
    /\ qframe.calls = {}

(***************************************************************************)
(* immigration-bot (main.py, state.py): the upload flow of the FastAPI     *)
(* backend.  A session is the dataclass of state.py without the two fields *)
(* no upload reads or writes (messages, additional_context).  A string     *)
(* that the code searches is the sequence of its words, and `needle in s`  *)
(* holds when the words of the needle occur in s one after the other.      *)
(* The services (parse_form, identify_form, fill_form, download_filled_pdf)*)
(* call remote APIs: each either returns or raises, as the fault of the    *)
(* request says.                                                           *)
(***************************************************************************)
\* A dict with no key, a dict with one item set, a dict with one key deleted
EmptyDict == [k \in {} |-> {}]
Put(d, k, v) == [x \in DOMAIN d \cup {k} |-> IF x = k THEN v ELSE d[x]]
Del(d, k) == [x \in DOMAIN d \ {k} |-> d[x]]

SessionIds == {"default"}

\* state.py 113-128: Session()
NewSession ==
    [state |-> "WAITING_FOR_FORM",
     form_bytes |-> None,
     form_filename |-> None,
     form_type |-> None,
     filled_pdf_path |-> None,
     rfe_text |-> None,
     profile_text |-> None,
     investigation_profile |-> None,
     investigation_result |-> None]

\* state.py 135-139: get_session creates the session it does not find
get_session(all, session_id) ==
    IF session_id \in DOMAIN all THEN all ELSE Put(all, session_id, NewSession)

\* state.py 142-145
reset_session(all, session_id) == Put(all, session_id, NewSession)

\* str.lower() of one word
LowerWord(w) ==
    CASE w = "RFE" -> "rfe"
      [] w = "Profile" -> "profile"
      [] w = "Request" -> "request"
      [] w = "Evidence" -> "evidence"
      [] w = "Candidate" -> "candidate"
      [] w = "McLovin" -> "mclovin"
      [] w = "USCIS" -> "uscis"
      [] w = "PDF" -> "pdf"
      [] OTHER -> w

LowerWords(s) == [i \in DOMAIN s |-> LowerWord(s[i])]

\* needle in s
Contains(s, needle) ==
    \E i \in 0..(Len(s) - Len(needle)) :
        SubSeq(s, i + 1, i + Len(needle)) = needle

\* main.py 152-161
classify_upload(filename, parsed_text) ==
    LET fn_lower == LowerWords(filename)
        text_lower == LowerWords(parsed_text)
    IN  IF \/ Contains(fn_lower, <<"rfe">>)
           \/ Contains(text_lower, <<"request", "for", "evidence">>)
           \/ Contains(text_lower, <<"rfe">>)
        THEN "rfe"
        ELSE IF \/ Contains(fn_lower, <<"profile">>)
                \/ Contains(text_lower, <<"candidate", "profile">>)
        THEN "profile"
        ELSE "form"

\* main.py 164-171
is_demo_doc(filename) ==
    LET fn == LowerWords(filename)
    IN  IF Contains(fn, <<"mclovin", "rfe">>) \/ fn = <<"mclovin", "rfe", "pdf">>
        THEN Some("rfe")
        ELSE IF \/ Contains(fn, <<"mclovin", "profile">>)
                \/ fn = <<"mclovin", "profile", "pdf">>
        THEN Some("profile")
        ELSE None

\* main.py 127-149: the texts of the two sample documents
DEMO_RFE_TEXT == <<"USCIS", "Request", "for", "Evidence", "RFE">>
DEMO_PROFILE_TEXT == <<"Candidate", "Profile", "McLovin">>

\* state.py 93-109: the H-1B fields of MCLOVIN_PROFILE, whatever the texts
\* say, and the additional context when it is not empty
extract_investigation_profile(rfe_text, profile_text, additional_context) ==
    LET profile == [job_title |-> "Software Developer",
                    company_type |-> "consulting",
                    wage_level |-> "Level I",
                    rfe_issues |-> <<"specialty_occupation">>,
                    current_arguments |-> <<"onet_citation">>]
    IN  IF additional_context # <<>>
        THEN [profile |-> profile, additional_context |-> Some(additional_context)]
        ELSE [profile |-> profile, additional_context |-> None]

\* The files a client uploads: the name, whether any byte was sent, the text
\* parse_form extracts when it succeeds and the form identify_form then names.
Files ==
    {[filename |-> <<"mclovin", "rfe", "pdf">>, bytes |-> 1, text |-> <<>>,
      form_type |-> "Unknown"],
     [filename |-> <<"McLovin", "Profile", "pdf">>, bytes |-> 1, text |-> <<>>,
      form_type |-> "Unknown"],
     [filename |-> <<"notice", "pdf">>, bytes |-> 1,
      text |-> <<"Request", "for", "Evidence">>, form_type |-> "I-797E"],
     [filename |-> <<"Profile", "pdf">>, bytes |-> 1, text |-> <<"resume">>,
      form_type |-> "Unknown"],
     [filename |-> <<"i9", "pdf">>, bytes |-> 1,
      text |-> <<"Employment", "Eligibility">>, form_type |-> "I-9"],
     [filename |-> <<"blank", "pdf">>, bytes |-> 0, text |-> <<>>,
      form_type |-> "Unknown"]}

\* The call of a request that raises, if any ("reparse" is the second
\* parse_form call, main.py 327)
Faults ==
    {"none", "parse_form", "identify_form", "fill_form", "download_filled_pdf",
     "reparse"}

\* What a request leaves: the sessions, the UploadResponse and whether the
\* except clause of main.py 348-353 wrote it
Outcome(all, session_id, ready, url, raised) ==
    [sessions |-> all,
     response |-> [state |-> all[session_id].state,
                   ready_to_investigate |-> ready,
                   file_url |-> url],
     raised |-> raised]

Answered(all, session_id) == Outcome(all, session_id, FALSE, None, FALSE)

\* main.py 348-353
Caught(all, session_id) == Outcome(all, session_id, FALSE, None, TRUE)

\* main.py 192-203 and 240-250
StoreRfe(all, session_id, text) ==
    Answered([all EXCEPT ![session_id].rfe_text = Some(text),
                         ![session_id].state = "RFE_UPLOADED"], session_id)

\* main.py 205-231 and 253-277
StoreProfile(all, session_id, text) ==
    LET session == all[session_id]
    IN  IF session.state = "RFE_UPLOADED"
        THEN Outcome([all EXCEPT
                        ![session_id].profile_text = Some(text),
                        ![session_id].state = "PROFILE_UPLOADED",
                        ![session_id].investigation_profile =
                            Some(extract_investigation_profile(
                                   IF session.rfe_text # None
                                   THEN Val(session.rfe_text) ELSE <<>>,
                                   text, <<>>))],
                     session_id, TRUE, None, FALSE)
        ELSE Answered([all EXCEPT ![session_id].profile_text = Some(text),
                                  ![session_id].state = "RFE_UPLOADED"],
                      session_id)

\* main.py 279-346: the I-9 flow
FormFlow(all, session_id, file, form_type, fault) ==
    LET session == all[session_id]
        stored == [all EXCEPT ![session_id].form_bytes = Some(file.bytes),
                              ![session_id].form_filename = Some(file.filename),
                              ![session_id].form_type = Some(form_type),
                              ![session_id].state = "WAITING_FOR_LICENSE"]
        filling == [all EXCEPT ![session_id].state = "FILLING"]
        fresh == reset_session(all, session_id)
    IN  CASE session.state = "WAITING_FOR_FORM" -> Answered(stored, session_id)
          [] session.state = "WAITING_FOR_LICENSE" ->
               Answered([all EXCEPT ![session_id].state = "WAITING_FOR_SSN"],
                        session_id)
          [] session.state = "WAITING_FOR_SSN" ->
               IF \/ session.form_bytes = None
                  \/ Val(session.form_bytes) = 0
                  \/ fault \in {"fill_form", "download_filled_pdf"}
               THEN Caught(filling, session_id)
               ELSE Outcome([all EXCEPT
                               ![session_id].filled_pdf_path = Some("downloads"),
                               ![session_id].state = "DONE"],
                            session_id, FALSE, Some("download"), FALSE)
          [] session.state = "DONE" ->
               IF fault = "reparse"
               THEN Caught(fresh, session_id)
               ELSE Answered([fresh EXCEPT
                                ![session_id].form_bytes = Some(file.bytes),
                                ![session_id].form_filename = Some(file.filename),
                                ![session_id].form_type = Some(form_type),
                                ![session_id].state = "WAITING_FOR_LICENSE"],
                             session_id)
          [] OTHER -> Answered(all, session_id)

\* main.py 174-353
upload_endpoint(before, session_id, file, fault) ==
    LET all == get_session(before, session_id)
        demo_type == is_demo_doc(file.filename)
        doc_class == classify_upload(file.filename, file.text)
    IN  IF demo_type # None
        THEN IF Val(demo_type) = "rfe"
             THEN StoreRfe(all, session_id, DEMO_RFE_TEXT)
             ELSE StoreProfile(all, session_id, DEMO_PROFILE_TEXT)
        ELSE IF fault \in {"parse_form", "identify_form"}
        THEN Caught(all, session_id)
        ELSE IF doc_class = "rfe"
        THEN StoreRfe(all, session_id, file.text)
        ELSE IF doc_class = "profile"
        THEN StoreProfile(all, session_id, file.text)
        ELSE FormFlow(all, session_id, file, file.form_type, fault)

\* main.py 371-375
reset_endpoint(all, session_id) == reset_session(all, session_id)

\* main.py 385-423: the engine is not loaded, recommend_strategy raises, or
\* the result is stored
InvestigateOutcomes == {"not_loaded", "raised", "ok"}

investigate_endpoint(before, session_id, outcome) ==
    IF outcome = "not_loaded" THEN before
    ELSE LET all == get_session(before, session_id)
         IN  IF outcome = "raised" THEN all
             ELSE [all EXCEPT ![session_id].investigation_result = Some("result"),
                              ![session_id].state = "RESULTS_READY"]

(***************************************************************************)
(* SpecUpload: any sequence of upload, reset and investigate requests on   *)
(* the sessions of SessionIds.  upload keeps the last upload request: its  *)
(* session, the state of that session when the request came in, whether    *)
(* the except clause answered, and the response.                           *)
(***************************************************************************)
WInit ==
    /\ GIdle
    /\ SIdle
    /\ EIdle
    /\ AIdle
    /\ WIdle

WUpload(session_id, file, fault) ==
    /\ LET out == upload_endpoint(sessions, session_id, file, fault)
       IN  /\ sessions' = out.sessions
           /\ upload' = [session_id |-> session_id,
                         before |-> get_session(sessions, session_id)[session_id].state,
                         raised |-> out.raised,
                         response |-> out.response]
    /\ UNCHANGED <<gvars, svars, evars, avars, conversations>>

WReset(session_id) ==
    /\ sessions' = reset_endpoint(sessions, session_id)
    /\ upload' = <<>>
    /\ UNCHANGED <<gvars, svars, evars, avars, conversations>>

WInvestigate(session_id, outcome) ==
    /\ sessions' = investigate_endpoint(sessions, session_id, outcome)
    /\ upload' = <<>>
    /\ UNCHANGED <<gvars, svars, evars, avars, conversations>>

WNext ==
    \/ \E session_id \in SessionIds, file \in Files, fault \in Faults :
          WUpload(session_id, file, fault)
    \/ \E session_id \in SessionIds : WReset(session_id)
    \/ \E session_id \in SessionIds, outcome \in InvestigateOutcomes :
          WInvestigate(session_id, outcome)

SpecUpload == WInit /\ [][WNext]_vars

\* C28: whenever a session is in PROFILE_UPLOADED, or an upload answered
\* ready_to_investigate, both an RFE text and a profile text are stored in
\* the session; whenever a session is in RFE_UPLOADED an RFE text is stored.
C28_StatesHaveTheirTexts ==
    /\ \A session_id \in DOMAIN sessions :
          LET session == sessions[session_id]
          IN  /\ session.state = "PROFILE_UPLOADED"
                   => session.rfe_text # None /\ session.profile_text # None
              /\ session.state = "RFE_UPLOADED" => session.rfe_text # None
    /\ (upload # <<>> /\ upload.response.ready_to_investigate)
          => LET session == sessions[upload.session_id]
             IN  session.rfe_text # None /\ session.profile_text # None

\* The uploads of a client whose services all answer lead the session to
\* DONE within n requests.
RECURSIVE DoneWithin(_, _, _)
DoneWithin(all, session_id, n) ==
    \/ all[session_id].state = "DONE"
    \/ /\ n > 0
       /\ \E file \in Files :
             DoneWithin(upload_endpoint(all, session_id, file, "none").sessions,
                        session_id, n - 1)

I9States == {"WAITING_FOR_FORM", "WAITING_FOR_LICENSE", "WAITING_FOR_SSN",
             "FILLING", "DONE"}

\* The I-9 flow needs three uploads from its first state to DONE.
I9Uploads == 3

\* C29: an upload that the except clause answered leaves the state of its
\* session as it was when the request came in; no session is in FILLING
\* between requests; and every session in a state of the I-9 flow can reach
\* DONE by uploads alone.
C29_FailedUploadKeepsState ==
    /\ (upload # <<>> /\ upload.raised)
          => sessions[upload.session_id].state = upload.before
    /\ \A session_id \in DOMAIN sessions :
          /\ sessions[session_id].state # "FILLING"
          /\ sessions[session_id].state \in I9States
                => DoneWithin(sessions, session_id, I9Uploads)

(***************************************************************************)
(* pumpkin-chat (app.py): the conversation history of the Flask backend.   *)
(* A message is kept as its role: the handlers never read a content back.  *)
(* chat, parse_pdf and analyze_document call remote APIs: each either      *)
(* returns or raises, as the fault of the request says.                    *)
(***************************************************************************)
MaxHistory == 22

\* app.py 57-58: the length the history is cut back to
HistoryLimit == 20

ChatSessionIds == {"default"}

\* message.strip() of the messages a client sends
ChatMessages == {"", " ", "hello"}

\* The upload of a request: no file part, or the name of the file, as words
ChatFiles ==
    {None, Some(<<>>), Some(<<"notes", "txt">>), Some(<<"scan", "PDF">>),
     Some(<<"rfe", "pdf">>)}

ChatFaults == {"none", "chat", "parse_pdf", "analyze_document"}

\* s.endswith(suffix)
EndsWith(s, suffix) ==
    /\ Len(s) >= Len(suffix)
    /\ SubSeq(s, Len(s) - Len(suffix) + 1, Len(s)) = suffix

\* app.py 42-43 and 93-94
GetOrCreate(all, session_id) ==
    IF session_id \in DOMAIN all THEN all ELSE Put(all, session_id, <<>>)

\* app.py 30-64
api_chat(before, session_id, text, fault) ==
    LET message == Strip(text)
    IN  IF ~Truthy(message) THEN before
        ELSE LET all == GetOrCreate(before, session_id)
                 asked == Append(all[session_id], "user")
                 answered == Append(asked, "assistant")
             IN  IF fault = "chat" THEN Put(all, session_id, asked)
                 ELSE IF Len(answered) > HistoryLimit
                 THEN Put(all, session_id, LastN(answered, HistoryLimit))
                 ELSE Put(all, session_id, answered)

\* app.py 67-113
api_upload(before, session_id, file, fault) ==
    IF file = None THEN before
    ELSE IF Val(file) = <<>> THEN before
    ELSE IF ~EndsWith(LowerWords(Val(file)), <<"pdf">>) THEN before
    ELSE IF fault = "parse_pdf" THEN before
    ELSE LET all == GetOrCreate(before, session_id)
         IN  IF fault = "analyze_document" THEN all
             ELSE Put(all, session_id,
                      all[session_id] \o <<"user", "assistant">>)

\* app.py 116-125
api_clear(all, session_id) ==
    IF session_id \in DOMAIN all THEN Del(all, session_id) ELSE all

(***************************************************************************)
(* SpecChat: any sequence of chat, upload and clear requests, as long as   *)
(* no history grows beyond MaxHistory messages.                            *)
(***************************************************************************)
CInit == WInit

Bounded(all) == \A session_id \in DOMAIN all : Len(all[session_id]) <= MaxHistory

CChat(session_id, text, fault) ==
    /\ conversations' = api_chat(conversations, session_id, text, fault)
    /\ Bounded(conversations')
    /\ UNCHANGED <<gvars, svars, evars, avars, sessions, upload>>

CUpload(session_id, file, fault) ==
    /\ conversations' = api_upload(conversations, session_id, file, fault)
    /\ Bounded(conversations')
    /\ UNCHANGED <<gvars, svars, evars, avars, sessions, upload>>

CClear(session_id) ==
    /\ conversations' = api_clear(conversations, session_id)
    /\ UNCHANGED <<gvars, svars, evars, avars, sessions, upload>>

CNext ==
    \/ \E session_id \in ChatSessionIds, text \in ChatMessages, fault \in ChatFaults :
          CChat(session_id, text, fault)
    \/ \E session_id \in ChatSessionIds, file \in ChatFiles, fault \in ChatFaults :
          CUpload(session_id, file, fault)
    \/ \E session_id \in ChatSessionIds : CClear(session_id)

SpecChat == CInit /\ [][CNext]_vars

\* C30: the stored history of every session holds at most 20 messages.
C30_HistoryAtMostTwenty ==
    \A session_id \in DOMAIN conversations :
        Len(conversations[session_id]) <= HistoryLimit

====
